---- MODULE Spec2Model ----
(***************************************************************************)
(* A model of GitHubTreePush (src/github-tree-push-module/index.js): the   *)
(* staged file map, the known-digest set, the run statistics, one treePush *)
(* as a sequence of suspension points, the concurrently running blob       *)
(* probes and uploads, and the remote repository the requests act on.      *)
(***************************************************************************)
EXTENDS Integers, Sequences, FiniteSets, TLC

VARIABLES
  options,        \* this.options (fixed at construction)
  fileOrder,      \* insertion order of the keys of #fileMap
  fileMap,        \* #fileMap: key -> entry
  stageOps,       \* number of addFile / ignoreFile calls made so far
  knownBlobShas,  \* #knownBlobShas
  lastRunStats,   \* this.lastRunStats
  pc,             \* the suspension point treePush is at
  err,            \* the error treePush threw ("none" while it has thrown nothing)
  treeUrl,        \* _readTree's local treeUrl
  referenceTree,  \* treePush's local referenceTree
  blobPromises,   \* _syncBlobs' local blobPromises (the shas they are for)
  taskState,      \* sha -> state of the _putBlobInRepo promise for it
  tree,           \* the delta row list as _deltaTree returned it (updatetree)
  treeParts,      \* _createCommitFromTree's local treeParts
  treeAt,         \* where in treeParts the array object `tree` is (0: nowhere)
  evalIndex,      \* _createCommitFromTree's local evalIndex
  baseSha,        \* _createCommitFromTree's local baseSha
  createTreeResult, \* _createCommitFromTree's local createTreeResult.sha
  partIndex,      \* position of the for-of loop over treeParts
  commit,         \* treePush's local commit
  prStatus,       \* treePush's local prStatus
  checkStatus,    \* treePush's local checkStatus
  waitAttemps,    \* treePush's local waitAttemps
  ifNoneMatch,    \* the If-None-Match header of the poll that is in flight
  repoTrees,      \* remote: the tree objects
  repoCommits,    \* remote: the commit objects
  baseHead,       \* remote: refs/heads/<base>
  blobs,          \* remote: the blob objects
  branches,       \* remote: the names of the other branch refs
  pullRequest,    \* remote: the pull request ("none", "open", "merged")
  pushCount,      \* number of treePush calls started on this instance
  log             \* the requests issued since the last treePush started, in order

stageVars == <<fileOrder, fileMap, stageOps>>
treeVars == <<tree, treeParts, treeAt, evalIndex, baseSha, createTreeResult, partIndex,
              commit>>
mergeVars == <<prStatus, checkStatus, waitAttemps, ifNoneMatch>>
remoteVars == <<repoTrees, repoCommits, baseHead, blobs, branches, pullRequest>>

vars == <<options, stageVars, knownBlobShas, lastRunStats, pc, err, treeUrl,
          referenceTree, blobPromises, taskState, treeVars, mergeVars,
          remoteVars, pushCount, log>>

-----------------------------------------------------------------------------
(* Bounds of the model *)

\* treePush calls on one instance
MaxPushes == 2
\* addFile / ignoreFile calls on one instance
MaxStageOps == 2
\* length of treeParts at which the split loop is no longer followed
MaxParts == 6

-----------------------------------------------------------------------------
(* Values *)

\* JavaScript null
Null == "null"
\* JavaScript undefined (a key the Map does not hold, a path find() does not find)
Absent == "absent"

\* The contents that are staged, and the byte length of each
Contents == {"c1", "c2", "c3"}

\* Buffer.byteLength(content, "utf8")
ByteLength(c) ==
  CASE c = "c1" -> 10
    [] c = "c2" -> 4600000
    [] c = "c3" -> 4600000
    [] c = "c4" -> 9100000

\* sha1 of the git blob header and the bytes: one digest per byte string
gitHubBlobPredictSha(c) ==
  CASE c = "c1" -> "h1"
    [] c = "c2" -> "h2"
    [] c = "c3" -> "h3"
    [] c = "c4" -> "h4"

Shas == {gitHubBlobPredictSha(c) : c \in Contents}

\* Paths are sequences of segments; the keys callers stage
Keys == {<<"a">>, <<"b">>, <<"d", "c">>}
SubPath == <<"s">>
\* Every path of the repository, in the order a tree lists them
FullPathSeq == << <<"a">>, <<"b">>, <<"d", "c">>,
                  <<"s", "a">>, <<"s", "b">>, <<"s", "d", "c">> >>
FullPaths == {FullPathSeq[i] : i \in 1..Len(FullPathSeq)}

IsPrefix(p, q) == Len(p) <= Len(q) /\ SubSeq(q, 1, Len(p)) = p

\* the entries of #fileMap
NoEntry == [kind |-> Absent, sha |-> Null, content |-> Null, buffer |-> Null]
IgnoredEntry == [kind |-> Null, sha |-> Null, content |-> Null, buffer |-> Null]

\* the values addFile is called with: a string or a Buffer of some bytes
StageValues == {[type |-> "string", bytes |-> c] : c \in Contents}
                 \cup {[type |-> "buffer", bytes |-> "c1"]}

MapHas(k) == fileMap[k].kind # Absent

\* a request of the log: what is asked, of which object, by which treePush
Req(op, arg) == [op |-> op, arg |-> arg, push |-> pushCount]

\* the positions at which treePush awaits the response of a request
RequestPcs ==
  {"getContents", "getTree", "getRef", "postTree", "postCommit", "getCompare",
   "patchRef", "postRef", "postPull", "patchIssue", "postReviewers",
   "getCheckRuns0", "getPull0", "getPull", "getCheckRuns", "putMerge", "headRef",
   "deleteRef"}

\* treePush goes on to position next; a request is issued on the way to its await
Goto(next, arg) ==
  /\ pc' = next
  /\ log' = IF next \in RequestPcs THEN Append(log, Req(next, arg)) ELSE log
  /\ UNCHANGED err

\* treePush throws
Throw(e) ==
  /\ pc' = "failed"
  /\ err' = e
  /\ UNCHANGED log

\* the locals of a treePush before they are assigned
NoObject == [kind |-> Null, n |-> 0]
NoCommit == [sha |-> 0, parents |-> <<>>]
NoPrStatus == [mergeable_state |-> Null, etag |-> Null, status |-> 0]
NoCheckStatus == [check_runs |-> <<>>, etag |-> <<>>, status |-> 0]
\* a request that carries no If-None-Match header, and one that carries etag
NoHeader == [present |-> FALSE, etag |-> Null]
IfNoneMatch(etag) == [present |-> TRUE, etag |-> etag]

\* lastRunStats as treePush resets it (a counter not yet set reads as 0)
NewRunStats ==
  [Tree_Operations |-> 0, Content_Converted_To_Blobs |-> 0, Blobs_Uploaded |-> 0,
   Text_Content_Uploaded |-> 0, Target_Tree_Size |-> 0, Files_Deleted |-> 0,
   Files_Referenced |-> 0, Commit_URL |-> Null, Pull_Request_URL |-> Null]

RECURSIVE SeqSum(_)
SeqSum(s) == IF s = <<>> THEN 0 ELSE Head(s) + SeqSum(Tail(s))

RECURSIVE Flatten(_)
Flatten(ss) == IF ss = <<>> THEN <<>> ELSE Head(ss) \o Flatten(Tail(ss))

-----------------------------------------------------------------------------
(* FileStage *)

\* Map.set: a new key goes last, a key already held keeps its place
MapSetOrder(k) == IF MapHas(k) THEN fileOrder ELSE Append(fileOrder, k)

\* newFile that keeps a Buffer of the bytes next to the string
newFile_bufferAlways(value) ==
  [kind |-> "file",
   sha |-> gitHubBlobPredictSha(value.bytes),
   content |-> IF value.type = "string" THEN value.bytes ELSE Null,
   buffer |-> value.bytes]

newFile(value) ==
  [kind |-> "file",
   sha |-> gitHubBlobPredictSha(value.bytes),
   content |-> IF value.type = "string" THEN value.bytes ELSE Null,
   buffer |-> IF value.type = "buffer" THEN value.bytes ELSE Null]

\* no treePush is running: the caller may stage or push
StageIdle == pc \in {"idle", "done", "failed"}

addFile(path, value) ==
  /\ StageIdle
  /\ stageOps < MaxStageOps
  /\ fileMap' = [fileMap EXCEPT ![path] = newFile(value)]
  /\ fileOrder' = MapSetOrder(path)
  /\ stageOps' = stageOps + 1
  /\ UNCHANGED <<options, knownBlobShas, lastRunStats, pc, err, treeUrl,
                 referenceTree, blobPromises, taskState, treeVars, mergeVars,
                 remoteVars, pushCount, log>>

ignoreFile(path) ==
  /\ StageIdle
  /\ stageOps < MaxStageOps
  /\ fileMap' = [fileMap EXCEPT ![path] = IgnoredEntry]
  /\ fileOrder' = MapSetOrder(path)
  /\ stageOps' = stageOps + 1
  /\ UNCHANGED <<options, knownBlobShas, lastRunStats, pc, err, treeUrl,
                 referenceTree, blobPromises, taskState, treeVars, mergeVars,
                 remoteVars, pushCount, log>>

-----------------------------------------------------------------------------
(* The remote repository *)

\* the tree a commit or tree id stands for
TreeOf(id) ==
  IF id.kind = "commit" THEN repoTrees[repoCommits[id.n].tree] ELSE repoTrees[id.n]

HeadTree == TreeOf([kind |-> "commit", n |-> baseHead])

\* the blob entries of the tree at directory dir, paths relative to dir
TreeListing(t, dir, recursive) ==
  LET under == SelectSeq(FullPathSeq,
                 LAMBDA p : /\ IsPrefix(dir, p)
                            /\ t[p] # Absent
                            /\ (recursive \/ Len(p) = Len(dir) + 1))
  IN [i \in 1..Len(under) |->
        [path |-> SubSeq(under[i], Len(dir) + 1, Len(under[i])), sha |-> t[under[i]]]]

\* the directory dir exists in tree t
DirExists(t, dir) == \E p \in FullPaths : IsPrefix(dir, p) /\ t[p] # Absent

-----------------------------------------------------------------------------
(* treePush: start, and RemoteTreeReader (_readTree) *)

treePushStart ==
  /\ StageIdle
  /\ pushCount < MaxPushes
  /\ pushCount' = pushCount + 1
  /\ lastRunStats' = NewRunStats
  /\ err' = "none"
  /\ treeUrl' = IF options.path # <<>> THEN "" ELSE "base"
  /\ pc' = IF options.path # <<>> THEN "getContents" ELSE "getTree"
  /\ log' = << [op |-> IF options.path # <<>> THEN "getContents" ELSE "getTree",
                arg |-> Null, push |-> pushCount + 1] >>
  /\ referenceTree' = <<>>
  /\ blobPromises' = {}
  /\ tree' = <<>>
  /\ treeParts' = <<>>
  /\ treeAt' = 0
  /\ evalIndex' = 0
  /\ baseSha' = NoObject
  /\ createTreeResult' = NoObject
  /\ partIndex' = 0
  /\ commit' = NoCommit
  /\ prStatus' = NoPrStatus
  /\ checkStatus' = NoCheckStatus
  /\ waitAttemps' = 0
  /\ ifNoneMatch' = NoHeader
  /\ UNCHANGED <<options, stageVars, knownBlobShas, taskState, remoteVars>>

\* the listing of the parent folder of options.path came back
readContentsResponse ==
  /\ pc = "getContents"
  /\ \/ /\ treeUrl' = IF DirExists(HeadTree, options.path) THEN "subtree" ELSE ""
        /\ Goto("getTree", Null)
     \/ /\ Throw("request")
        /\ UNCHANGED treeUrl
  /\ UNCHANGED <<options, stageVars, knownBlobShas, lastRunStats, referenceTree,
                 blobPromises, taskState, treeVars, mergeVars, remoteVars, pushCount>>

\* the blob rows of the fetched tree
FetchedTree == TreeListing(HeadTree, options.path, options.recursive)

\* readTreeResponse without the shas of the fetched tree added to #knownBlobShas
readTreeResponse_noSeed ==
  /\ pc = "getTree"
  /\ \/ /\ treeUrl # ""
        /\ referenceTree' = FetchedTree
        /\ lastRunStats' = [lastRunStats EXCEPT !.Target_Tree_Size = Len(FetchedTree)]
        /\ Goto("syncBlobs", Null)
        /\ UNCHANGED knownBlobShas
     \/ /\ treeUrl # ""
        /\ Throw("treeTooLarge")
        /\ UNCHANGED <<referenceTree, lastRunStats, knownBlobShas>>
     \/ /\ Throw("request")
        /\ UNCHANGED <<referenceTree, lastRunStats, knownBlobShas>>
  /\ UNCHANGED <<options, stageVars, treeUrl, blobPromises, taskState, treeVars,
                 mergeVars, remoteVars, pushCount>>

\* readTreeResponse with the test of treeResult.truncated after the shas of
\* the fetched tree were added to #knownBlobShas
readTreeResponse_seedThenThrow ==
  /\ pc = "getTree"
  /\ \/ /\ treeUrl # ""
        /\ referenceTree' = FetchedTree
        /\ lastRunStats' = [lastRunStats EXCEPT !.Target_Tree_Size = Len(FetchedTree)]
        /\ knownBlobShas' = knownBlobShas \cup
                              {FetchedTree[i].sha : i \in 1..Len(FetchedTree)}
        /\ Goto("syncBlobs", Null)
     \/ /\ treeUrl # ""
        /\ Throw("treeTooLarge")
        /\ knownBlobShas' = knownBlobShas \cup
                              {FetchedTree[i].sha : i \in 1..Len(FetchedTree)}
        /\ UNCHANGED <<referenceTree, lastRunStats>>
     \/ /\ Throw("request")
        /\ UNCHANGED <<referenceTree, lastRunStats, knownBlobShas>>
  /\ UNCHANGED <<options, stageVars, treeUrl, blobPromises, taskState, treeVars,
                 mergeVars, remoteVars, pushCount>>

\* the tree came back: truncated, or with its rows
readTreeResponse ==
  /\ pc = "getTree"
  /\ \/ /\ treeUrl # ""
        /\ referenceTree' = FetchedTree
        /\ lastRunStats' = [lastRunStats EXCEPT !.Target_Tree_Size = Len(FetchedTree)]
        /\ knownBlobShas' = knownBlobShas \cup
                              {FetchedTree[i].sha : i \in 1..Len(FetchedTree)}
        /\ Goto("syncBlobs", Null)
     \/ /\ treeUrl # ""
        /\ Throw("treeTooLarge")
        /\ UNCHANGED <<referenceTree, lastRunStats, knownBlobShas>>
     \/ /\ Throw("request")
        /\ UNCHANGED <<referenceTree, lastRunStats, knownBlobShas>>
  /\ UNCHANGED <<options, stageVars, treeUrl, blobPromises, taskState, treeVars,
                 mergeVars, remoteVars, pushCount>>

-----------------------------------------------------------------------------
(* BlobSyncer (_syncBlobs, _putBlobInRepo) *)

\* fileMapValues.filter(x => x.sha === value.sha).length > 1
ShaStagedTwice(fm, sha) ==
  Cardinality({i \in 1..Len(fileOrder) : fm[fileOrder[i]].sha = sha}) > 1

\* reading .sha of a null value (an ignored path) throws a TypeError
HasNullValue(fm) == \E i \in 1..Len(fileOrder) : fm[fileOrder[i]].kind = Null

\* ConvertToBlob without the test of the size: duplicates only
ConvertToBlob_duplicatesOnly(fm, value) == ShaStagedTwice(fm, value.sha)

\* the content of an entry is converted to a buffer
ConvertToBlob(fm, value) ==
  \/ ByteLength(value.content) > options.contentToBlobBytes
  \/ ShaStagedTwice(fm, value.sha)

\* SyncLoop without knownBlobShas.add(value.sha) after the probe is issued
RECURSIVE SyncLoop_noAdd(_, _)
SyncLoop_noAdd(i, st) ==
  IF i > Len(fileOrder) THEN st
  ELSE
    LET k == fileOrder[i]
        value == st.fileMap[k]
    IN
    IF value.kind = Null THEN [st EXCEPT !.threw = TRUE]
    ELSE IF value.sha \in st.known THEN SyncLoop_noAdd(i + 1, st)
    ELSE IF /\ value.content # Null
            /\ ByteLength(value.content) <= options.contentToBlobBytes
            /\ HasNullValue(st.fileMap)
         THEN [st EXCEPT !.threw = TRUE]
    ELSE
      LET convert == value.content # Null /\ ConvertToBlob(st.fileMap, value)
          value2 == IF convert
                    THEN [value EXCEPT !.buffer = value.content, !.content = Null]
                    ELSE value
          st2 == [st EXCEPT !.fileMap[k] = value2,
                            !.converted = @ + (IF convert THEN 1 ELSE 0)]
      IN
      IF value2.buffer # Null
      THEN SyncLoop_noAdd(i + 1, [st2 EXCEPT !.probes = Append(@, value2.sha)])
      ELSE SyncLoop_noAdd(i + 1, st2)

\* The for loop of _syncBlobs from entry i on. st holds the file map, the known
\* shas, the number of conversions, the probes issued and whether it threw.
RECURSIVE SyncLoop(_, _)
SyncLoop(i, st) ==
  IF i > Len(fileOrder) THEN st
  ELSE
    LET k == fileOrder[i]
        value == st.fileMap[k]
    IN
    IF value.kind = Null THEN [st EXCEPT !.threw = TRUE]
    ELSE IF value.sha \in st.known THEN SyncLoop(i + 1, st)
    ELSE IF /\ value.content # Null
            /\ ByteLength(value.content) <= options.contentToBlobBytes
            /\ HasNullValue(st.fileMap)
         THEN [st EXCEPT !.threw = TRUE]
    ELSE
      LET convert == value.content # Null /\ ConvertToBlob(st.fileMap, value)
          value2 == IF convert
                    THEN [value EXCEPT !.buffer = value.content, !.content = Null]
                    ELSE value
          st2 == [st EXCEPT !.fileMap[k] = value2,
                            !.converted = @ + (IF convert THEN 1 ELSE 0)]
      IN
      IF value2.buffer # Null
      THEN SyncLoop(i + 1, [st2 EXCEPT !.probes = Append(@, value2.sha),
                                       !.known = @ \cup {value2.sha}])
      ELSE SyncLoop(i + 1, st2)

SyncResult ==
  SyncLoop(1, [fileMap |-> fileMap, known |-> knownBlobShas, converted |-> 0,
               probes |-> <<>>, threw |-> FALSE])

\* syncBlobs without the await of Promise.all: treePush goes on to _deltaTree
\* with the probes pending
syncBlobs_noAwait ==
  /\ pc = "syncBlobs"
  /\ LET r == SyncResult
         n == Len(r.probes)
     IN
     /\ fileMap' = r.fileMap
     /\ knownBlobShas' = r.known
     /\ lastRunStats' = [lastRunStats EXCEPT
                           !.Content_Converted_To_Blobs = @ + r.converted]
     /\ blobPromises' = {r.probes[i] : i \in 1..n}
     /\ taskState' = [h \in Shas |->
                        IF \E i \in 1..n : r.probes[i] = h THEN "probing"
                        ELSE taskState[h]]
     /\ log' = log \o [i \in 1..n |-> Req("headBlob", r.probes[i])]
     /\ pc' = IF r.threw THEN "failed" ELSE "delta"
     /\ err' = IF r.threw THEN "typeError" ELSE err
  /\ UNCHANGED <<options, fileOrder, stageOps, treeUrl, referenceTree, treeVars,
                 mergeVars, remoteVars, pushCount>>

\* _syncBlobs up to its await: the loop, every probe issued
syncBlobs ==
  /\ pc = "syncBlobs"
  /\ LET r == SyncResult
         n == Len(r.probes)
     IN
     /\ fileMap' = r.fileMap
     /\ knownBlobShas' = r.known
     /\ lastRunStats' = [lastRunStats EXCEPT
                           !.Content_Converted_To_Blobs = @ + r.converted]
     /\ blobPromises' = {r.probes[i] : i \in 1..n}
     /\ taskState' = [h \in Shas |->
                        IF \E i \in 1..n : r.probes[i] = h THEN "probing"
                        ELSE taskState[h]]
     /\ log' = log \o [i \in 1..n |-> Req("headBlob", r.probes[i])]
     /\ pc' = IF r.threw THEN "failed" ELSE IF n > 0 THEN "awaitBlobs" ELSE "delta"
     /\ err' = IF r.threw THEN "typeError" ELSE err
  /\ UNCHANGED <<options, fileOrder, stageOps, treeUrl, referenceTree, treeVars,
                 mergeVars, remoteVars, pushCount>>

\* the treePush a _putBlobInRepo promise belongs to: the running one, or (0) an
\* earlier one that has thrown while the promise was pending
TaskPush(h) == IF h \in blobPromises THEN pushCount ELSE 0

\* probeResponse without the test of headResult.status: the blob is uploaded
\* whatever the probe found
probeResponse_uploadAlways(h) ==
  /\ taskState[h] = "probing"
  /\ \/ /\ taskState' = [taskState EXCEPT ![h] = "uploading"]
        /\ log' = Append(log, [op |-> "postBlob", arg |-> h, push |-> TaskPush(h)])
     \/ /\ taskState' = [taskState EXCEPT ![h] = "failed"]
        /\ UNCHANGED log
  /\ UNCHANGED <<options, stageVars, knownBlobShas, lastRunStats, pc, err, treeUrl,
                 referenceTree, blobPromises, treeVars, mergeVars, remoteVars,
                 pushCount>>

\* the HEAD of /git/blobs/<sha> came back
probeResponse(h) ==
  /\ taskState[h] = "probing"
  /\ \/ /\ h \in blobs
        /\ taskState' = [taskState EXCEPT ![h] = "done"]
        /\ UNCHANGED log
     \/ /\ h \notin blobs
        /\ taskState' = [taskState EXCEPT ![h] = "uploading"]
        /\ log' = Append(log, [op |-> "postBlob", arg |-> h, push |-> TaskPush(h)])
     \/ /\ taskState' = [taskState EXCEPT ![h] = "failed"]
        /\ UNCHANGED log
  /\ UNCHANGED <<options, stageVars, knownBlobShas, lastRunStats, pc, err, treeUrl,
                 referenceTree, blobPromises, treeVars, mergeVars, remoteVars,
                 pushCount>>

\* the POST of /git/blobs came back
uploadResponse(h) ==
  /\ taskState[h] = "uploading"
  /\ \/ /\ taskState' = [taskState EXCEPT ![h] = "done"]
        /\ blobs' = blobs \cup {h}
        /\ lastRunStats' = [lastRunStats EXCEPT !.Blobs_Uploaded = @ + 1]
     \/ /\ taskState' = [taskState EXCEPT ![h] = "failed"]
        /\ UNCHANGED <<blobs, lastRunStats>>
  /\ UNCHANGED <<options, stageVars, knownBlobShas, pc, err, treeUrl, referenceTree,
                 blobPromises, treeVars, mergeVars, repoTrees, repoCommits, baseHead,
                 branches, pullRequest, pushCount, log>>

\* awaitBlobs that waits until every promise has settled and then goes on
\* (Promise.allSettled in place of Promise.all)
awaitBlobs_allSettled ==
  /\ pc = "awaitBlobs"
  /\ \A h \in blobPromises : taskState[h] \in {"done", "failed"}
  /\ Goto("delta", Null)
  /\ UNCHANGED <<options, stageVars, knownBlobShas, lastRunStats, treeUrl,
                 referenceTree, blobPromises, taskState, treeVars, mergeVars,
                 remoteVars, pushCount>>

\* await Promise.all(blobPromises): every promise resolved, or the first rejection
awaitBlobs ==
  /\ pc = "awaitBlobs"
  /\ \/ /\ \A h \in blobPromises : taskState[h] = "done"
        /\ Goto("delta", Null)
     \/ /\ \E h \in blobPromises : taskState[h] = "failed"
        /\ Throw("request")
  /\ UNCHANGED <<options, stageVars, knownBlobShas, lastRunStats, treeUrl,
                 referenceTree, blobPromises, taskState, treeVars, mergeVars,
                 remoteVars, pushCount>>

-----------------------------------------------------------------------------
(* DeltaComputer (_deltaTree) *)

\* referenceTree.find(x => x.path === key)
ExistingFile(ref, key) ==
  IF \E i \in 1..Len(ref) : ref[i].path = key
  THEN ref[CHOOSE i \in 1..Len(ref) : ref[i].path = key]
  ELSE [path |-> key, sha |-> Absent]

\* treeRow without the look into knownBlobShas: content goes inline when held
treeRow_alwaysInline(key, value) ==
  IF value.content # Null
  THEN [path |-> options.path \o key, sha |-> Absent, content |-> value.content]
  ELSE [path |-> options.path \o key, sha |-> value.sha, content |-> Absent]

\* treeRow with treeRow.sha set for every entry, next to the content
treeRow_shaAlways(key, value) ==
  IF value.content # Null /\ value.sha \notin knownBlobShas
  THEN [path |-> options.path \o key, sha |-> value.sha, content |-> value.content]
  ELSE [path |-> options.path \o key, sha |-> value.sha, content |-> Absent]

\* the row of a staged entry: content inline, or else a reference to its sha
\* when it has one
treeRow(key, value) ==
  IF value.content # Null /\ value.sha \notin knownBlobShas
  THEN [path |-> options.path \o key, sha |-> Absent, content |-> value.content]
  ELSE IF value.sha # Null
  THEN [path |-> options.path \o key, sha |-> value.sha, content |-> Absent]
  ELSE [path |-> options.path \o key, sha |-> Absent, content |-> Absent]

\* deleteRow that leaves options.path out of the row's path
deleteRow_noOutputPath(key) == [path |-> key, sha |-> Null, content |-> Absent]

\* the row that deletes a path
deleteRow(key) == [path |-> options.path \o key, sha |-> Null, content |-> Absent]

\* NeedsRow without the comparison with the sha of the existing file
NeedsRow_everyFile(ref, key) == fileMap[key].kind = "file"

\* the staged entry at key gets a row
NeedsRow(ref, key) ==
  /\ fileMap[key].kind = "file"
  /\ ExistingFile(ref, key).sha # fileMap[key].sha

\* _deltaTree without the test of options.deleteOtherFiles
_deltaTree_deletesAlways(ref) ==
  LET keys == SelectSeq(fileOrder, LAMBDA k : NeedsRow(ref, k))
      adds == [i \in 1..Len(keys) |-> treeRow(keys[i], fileMap[keys[i]])]
      gone == SelectSeq(ref, LAMBDA x : ~MapHas(x.path))
      dels == [i \in 1..Len(gone) |-> deleteRow(gone[i].path)]
  IN adds \o dels

\* _deltaTree with the deletes processed before the loop over the file map
_deltaTree_deletesFirst(ref) ==
  LET keys == SelectSeq(fileOrder, LAMBDA k : NeedsRow(ref, k))
      adds == [i \in 1..Len(keys) |-> treeRow(keys[i], fileMap[keys[i]])]
      gone == SelectSeq(ref, LAMBDA x : ~MapHas(x.path))
      dels == [i \in 1..Len(gone) |-> deleteRow(gone[i].path)]
  IN IF options.deleteOtherFiles THEN dels \o adds ELSE adds

\* the rows that move the snapshot ref to what is staged
_deltaTree(ref) ==
  LET keys == SelectSeq(fileOrder, LAMBDA k : NeedsRow(ref, k))
      adds == [i \in 1..Len(keys) |-> treeRow(keys[i], fileMap[keys[i]])]
      gone == SelectSeq(ref, LAMBDA x : ~MapHas(x.path))
      dels == [i \in 1..Len(gone) |-> deleteRow(gone[i].path)]
  IN IF options.deleteOtherFiles THEN adds \o dels ELSE adds

-----------------------------------------------------------------------------
(* CommitBuilder (_createCommitFromTree) *)

\* the payload ceiling of one create-tree request, in characters
PayloadCeiling == 9000000

\* the path as the row carries it: its segments joined by "/"
PathLength(p) == Len(p) + (Len(p) - 1)

\* JSON.stringify(row).length: {"path":"..","mode":"100644","type":"blob"} and
\* then ,"content":".." or ,"sha":"<40 hex>" or ,"sha":null
RowLength(row) ==
  41 + PathLength(row.path) +
    (IF row.content # Absent THEN 13 + ByteLength(row.content)
     ELSE IF row.sha = Null THEN 11
     ELSE IF row.sha # Absent THEN 49
     ELSE 0)

\* JSON.stringify(rows).length: the brackets, the rows, the commas between them
StringifyLength(rows) ==
  2 + SeqSum([i \in 1..Len(rows) |-> RowLength(rows[i])])
    + (IF Len(rows) > 1 THEN Len(rows) - 1 ELSE 0)

TooLong(rows) == StringifyLength(rows) > PayloadCeiling

\* Math.ceil(n / 2)
Half(n) == (n + 1) \div 2

\* treeParts.unshift(treeParts[evalIndex].splice(0, half)): the first half is cut
\* out of the part and put at the front of treeParts
SplitPart(parts, i) ==
  LET part == parts[i]
      half == Half(Len(part))
  IN <<SubSeq(part, 1, half)>> \o
       [parts EXCEPT ![i] = SubSeq(part, half + 1, Len(part))]

\* deltaTree without the early return of _createCommitFromTree for an empty tree
deltaTree_noEarlyReturn ==
  /\ pc = "delta"
  /\ LET rows == _deltaTree(referenceTree) IN
     /\ tree' = rows
     /\ Goto("split", Null)
     /\ treeParts' = <<rows>>
     /\ treeAt' = 1
     /\ evalIndex' = 1
     /\ lastRunStats' = [lastRunStats EXCEPT !.Tree_Operations = Len(rows)]
  /\ UNCHANGED <<options, stageVars, knownBlobShas, treeUrl, referenceTree,
                 blobPromises, taskState, baseSha, createTreeResult, partIndex,
                 commit, mergeVars, remoteVars, pushCount>>

\* _deltaTree, and _createCommitFromTree up to its split loop
deltaTree ==
  /\ pc = "delta"
  /\ LET rows == _deltaTree(referenceTree) IN
     /\ tree' = rows
     /\ IF rows = <<>>
        THEN /\ Goto("done", Null)
             /\ UNCHANGED <<treeParts, treeAt, evalIndex, lastRunStats>>
        ELSE /\ Goto("split", Null)
             /\ treeParts' = <<rows>>
             /\ treeAt' = 1
             /\ evalIndex' = 1
             /\ lastRunStats' = [lastRunStats EXCEPT !.Tree_Operations = Len(rows)]
  /\ UNCHANGED <<options, stageVars, knownBlobShas, treeUrl, referenceTree,
                 blobPromises, taskState, baseSha, createTreeResult, partIndex,
                 commit, mergeVars, remoteVars, pushCount>>

\* one turn of the while loop that splits the tree
splitStep ==
  /\ pc = "split"
  /\ evalIndex <= Len(treeParts)
  /\ IF TooLong(treeParts[evalIndex])
     THEN /\ Len(treeParts) < MaxParts
          /\ treeParts' = SplitPart(treeParts, evalIndex)
          /\ treeAt' = treeAt + 1
          /\ UNCHANGED evalIndex
     ELSE /\ evalIndex' = evalIndex + 1
          /\ UNCHANGED <<treeParts, treeAt>>
  /\ UNCHANGED <<options, stageVars, knownBlobShas, lastRunStats, pc, err, treeUrl,
                 referenceTree, blobPromises, taskState, tree, baseSha,
                 createTreeResult, partIndex, commit, mergeVars, remoteVars,
                 pushCount, log>>

\* the while loop ends: the branch head is asked for
splitDone ==
  /\ pc = "split"
  /\ evalIndex > Len(treeParts)
  /\ Goto("getRef", Null)
  /\ UNCHANGED <<options, stageVars, knownBlobShas, lastRunStats, treeUrl,
                 referenceTree, blobPromises, taskState, treeVars, mergeVars,
                 remoteVars, pushCount>>

\* the body of a create-tree request
TreeBody(part, base) == [tree |-> part, base_tree |-> base]

\* the branch head came back: the first create-tree request goes out
getRefResponse ==
  /\ pc = "getRef"
  /\ \/ LET head == [kind |-> "commit", n |-> baseHead] IN
        /\ baseSha' = head
        /\ createTreeResult' = head
        /\ partIndex' = 1
        /\ Goto("postTree", TreeBody(treeParts[1], head))
     \/ /\ Throw("request")
        /\ UNCHANGED <<baseSha, createTreeResult, partIndex>>
  /\ UNCHANGED <<options, stageVars, knownBlobShas, lastRunStats, treeUrl,
                 referenceTree, blobPromises, taskState, tree, treeParts, treeAt,
                 evalIndex,
                 commit, mergeVars, remoteVars, pushCount>>

\* The remote applies rows to tree t: a content row stores the blob and sets the
\* path, a sha row sets the path to a blob that must exist, sha null removes it.
RECURSIVE ApplyRows(_, _)
ApplyRows(st, rows) ==
  IF rows = <<>> \/ ~st.ok THEN st
  ELSE
    LET row == Head(rows) IN
    IF row.content # Absent
    THEN ApplyRows([st EXCEPT !.t[row.path] = gitHubBlobPredictSha(row.content),
                              !.blobs = @ \cup {gitHubBlobPredictSha(row.content)}],
                   Tail(rows))
    ELSE IF row.sha = Null
    THEN ApplyRows([st EXCEPT !.t[row.path] = Absent], Tail(rows))
    ELSE IF row.sha \in st.blobs
    THEN ApplyRows([st EXCEPT !.t[row.path] = row.sha], Tail(rows))
    ELSE [st EXCEPT !.ok = FALSE]

CreateTree(part, base) ==
  ApplyRows([t |-> TreeOf(base), blobs |-> blobs, ok |-> TRUE], part)

\* trees are content-addressed: an equal tree is the same object
TreeId(t) ==
  IF \E i \in 1..Len(repoTrees) : repoTrees[i] = t
  THEN CHOOSE i \in 1..Len(repoTrees) : repoTrees[i] = t
  ELSE Len(repoTrees) + 1

StoreTree(t) ==
  IF TreeId(t) > Len(repoTrees) THEN Append(repoTrees, t) ELSE repoTrees

\* postTreeResponse with the create-commit request issued inside the loop over
\* the parts, once for each part
postTreeResponse_commitInLoop ==
  /\ pc = "postTree"
  /\ \/ LET r == CreateTree(treeParts[partIndex], createTreeResult)
            id == [kind |-> "tree", n |-> TreeId(r.t)]
            commitReq == Req("postCommit", [parents |-> <<baseSha>>, tree |-> id])
        IN
        /\ r.ok
        /\ repoTrees' = StoreTree(r.t)
        /\ blobs' = r.blobs
        /\ createTreeResult' = id
        /\ partIndex' = partIndex + 1
        /\ err' = err
        /\ IF partIndex < Len(treeParts)
           THEN /\ pc' = "postTree"
                /\ log' = log \o <<commitReq,
                                    Req("postTree",
                                        TreeBody(treeParts[partIndex + 1], id))>>
           ELSE /\ pc' = "postCommit"
                /\ log' = Append(log, commitReq)
     \/ /\ Throw("request")
        /\ UNCHANGED <<repoTrees, blobs, createTreeResult, partIndex>>
  /\ UNCHANGED <<options, stageVars, knownBlobShas, lastRunStats, treeUrl,
                 referenceTree, blobPromises, taskState, tree, treeParts, treeAt,
                 evalIndex,
                 baseSha, commit, mergeVars, repoCommits, baseHead, branches,
                 pullRequest, pushCount>>

\* postTreeResponse with base_tree: baseSha in every create-tree request
postTreeResponse_baseAlwaysHead ==
  /\ pc = "postTree"
  /\ \/ LET r == CreateTree(treeParts[partIndex], baseSha)
            id == [kind |-> "tree", n |-> TreeId(r.t)]
        IN
        /\ r.ok
        /\ repoTrees' = StoreTree(r.t)
        /\ blobs' = r.blobs
        /\ createTreeResult' = id
        /\ partIndex' = partIndex + 1
        /\ IF partIndex < Len(treeParts)
           THEN Goto("postTree", TreeBody(treeParts[partIndex + 1], baseSha))
           ELSE Goto("postCommit", [parents |-> <<baseSha>>, tree |-> id])
     \/ /\ Throw("request")
        /\ UNCHANGED <<repoTrees, blobs, createTreeResult, partIndex>>
  /\ UNCHANGED <<options, stageVars, knownBlobShas, lastRunStats, treeUrl,
                 referenceTree, blobPromises, taskState, tree, treeParts, treeAt,
                 evalIndex,
                 baseSha, commit, mergeVars, repoCommits, baseHead, branches,
                 pullRequest, pushCount>>

\* a create-tree request came back: the next one, or the create-commit, goes out
postTreeResponse ==
  /\ pc = "postTree"
  /\ \/ LET r == CreateTree(treeParts[partIndex], createTreeResult)
            id == [kind |-> "tree", n |-> TreeId(r.t)]
        IN
        /\ r.ok
        /\ repoTrees' = StoreTree(r.t)
        /\ blobs' = r.blobs
        /\ createTreeResult' = id
        /\ partIndex' = partIndex + 1
        /\ IF partIndex < Len(treeParts)
           THEN Goto("postTree", TreeBody(treeParts[partIndex + 1], id))
           ELSE Goto("postCommit", [parents |-> <<baseSha>>, tree |-> id])
     \/ /\ Throw("request")
        /\ UNCHANGED <<repoTrees, blobs, createTreeResult, partIndex>>
  /\ UNCHANGED <<options, stageVars, knownBlobShas, lastRunStats, treeUrl,
                 referenceTree, blobPromises, taskState, tree, treeParts, treeAt,
                 evalIndex,
                 baseSha, commit, mergeVars, repoCommits, baseHead, branches,
                 pullRequest, pushCount>>

\* the rows of the tree that carry content, a null sha, a sha
ContentRows(rows) == SelectSeq(rows, LAMBDA x : x.content # Absent)
DeleteRows(rows) == SelectSeq(rows, LAMBDA x : x.sha = Null)
ShaRows(rows) == SelectSeq(rows, LAMBDA x : x.sha # Null /\ x.sha # Absent)

\* The array `tree` when the commit is made: treeParts = [tree] holds the array
\* itself, so that the split loop has cut out of it every first half it took
\* from the part the array is.
TreeArray == treeParts[treeAt]

\* the create-commit request came back: the statistics, and the compare goes out
postCommitResponse ==
  /\ pc = "postCommit"
  /\ \/ LET c == [sha |-> Len(repoCommits) + 1, parents |-> <<baseSha.n>>] IN
        /\ repoCommits' = Append(repoCommits,
                                 [tree |-> createTreeResult.n, parent |-> baseSha.n])
        /\ commit' = c
        /\ lastRunStats' =
             [lastRunStats EXCEPT
                !.Text_Content_Uploaded = @ + Len(ContentRows(TreeArray)),
                !.Files_Deleted = @ + Len(DeleteRows(TreeArray)),
                !.Files_Referenced = @ + Len(ShaRows(TreeArray)),
                !.Commit_URL = "commit"]
        /\ knownBlobShas' = knownBlobShas \cup
             {gitHubBlobPredictSha(ContentRows(TreeArray)[i].content) :
                i \in 1..Len(ContentRows(TreeArray))}
        /\ Goto("getCompare", c)
     \/ /\ Throw("request")
        /\ UNCHANGED <<repoCommits, commit, lastRunStats, knownBlobShas>>
  /\ UNCHANGED <<options, stageVars, treeUrl, referenceTree, blobPromises, taskState,
                 tree, treeParts, treeAt, evalIndex, baseSha, createTreeResult, partIndex,
                 mergeVars, repoTrees, baseHead, blobs, branches, pullRequest,
                 pushCount>>

-----------------------------------------------------------------------------
(* ChangeComparator (_compareCommit) and the update of the base branch *)

\* the files the compare of a commit with its parent lists
CompareFiles(c) ==
  {p \in FullPaths : TreeOf([kind |-> "commit", n |-> c.sha])[p]
                       # TreeOf([kind |-> "commit", n |-> c.parents[1]])[p]}

\* what treePush does once the pull request needs nothing more
AfterReviewers ==
  IF options.automatic_merge
  THEN (IF options.automatic_merge_delay THEN "sleepDelay" ELSE "getCheckRuns0")
  ELSE "done"
AfterIssue == IF options.review_options THEN "postReviewers" ELSE AfterReviewers
\* AfterPull without the test of issue_options: the issue is always patched
AfterPull_issueAlways == "patchIssue"

AfterPull == IF options.issue_options THEN "patchIssue" ELSE AfterIssue

\* getCompareResponse without the test of options.pull_request: the base ref is
\* patched in either mode
getCompareResponse_directAlways ==
  /\ pc = "getCompare"
  /\ \/ IF CompareFiles(commit) # {}
        THEN Goto("patchRef", commit.sha)
        ELSE Goto("done", Null)
     \/ Throw("request")
  /\ UNCHANGED <<options, stageVars, knownBlobShas, lastRunStats, treeUrl,
                 referenceTree, blobPromises, taskState, treeVars, mergeVars,
                 remoteVars, pushCount>>

\* the compare came back: nothing changed, or the branch or the ref request goes out
getCompareResponse ==
  /\ pc = "getCompare"
  /\ \/ IF CompareFiles(commit) # {}
        THEN IF options.pull_request
             THEN Goto("postRef", commit.sha)
             ELSE Goto("patchRef", commit.sha)
        ELSE Goto("done", Null)
     \/ Throw("request")
  /\ UNCHANGED <<options, stageVars, knownBlobShas, lastRunStats, treeUrl,
                 referenceTree, blobPromises, taskState, treeVars, mergeVars,
                 remoteVars, pushCount>>

\* the PATCH of the base ref came back; the remote takes a fast-forward only
patchRefResponse ==
  /\ pc = "patchRef"
  /\ \/ /\ baseHead = commit.parents[1]
        /\ baseHead' = commit.sha
        /\ Goto("done", Null)
     \/ /\ Throw("request")
        /\ UNCHANGED baseHead
  /\ UNCHANGED <<options, stageVars, knownBlobShas, lastRunStats, treeUrl,
                 referenceTree, blobPromises, taskState, treeVars, mergeVars,
                 repoTrees, repoCommits, blobs, branches, pullRequest, pushCount>>

-----------------------------------------------------------------------------
(* MergeOrchestrator: the pull request *)

\* the wait loop gives up once waitAttemps is over this
MaxWaitAttemps == 100

\* check runs per commit that the remote reports
MaxCheckRuns == 2

MergeableStates == {"unknown", "blocked", "unstable", "clean"}

CheckRuns ==
  {[status |-> "in_progress", conclusion |-> Null],
   [status |-> "completed", conclusion |-> "success"],
   [status |-> "completed", conclusion |-> "failure"]}

CheckLists == UNION {[1..n -> CheckRuns] : n \in 0..MaxCheckRuns}

\* treePush reaches "done" in pull request mode: the URL is recorded
Arrive(next) ==
  lastRunStats' = IF next = "done"
                  THEN [lastRunStats EXCEPT !.Pull_Request_URL = "pull"]
                  ELSE lastRunStats

\* the branch <base>-<commit.sha> was created: the pull request is asked for
postRefResponse ==
  /\ pc = "postRef"
  /\ \/ /\ commit.sha \notin branches
        /\ branches' = branches \cup {commit.sha}
        /\ Goto("postPull", commit.sha)
     \/ /\ Throw("request")
        /\ UNCHANGED branches
  /\ UNCHANGED <<options, stageVars, knownBlobShas, lastRunStats, treeUrl,
                 referenceTree, blobPromises, taskState, treeVars, mergeVars,
                 repoTrees, repoCommits, baseHead, blobs, pullRequest, pushCount>>

postPullResponse ==
  /\ pc = "postPull"
  /\ \/ /\ pullRequest' = "open"
        /\ Goto(AfterPull, Null)
        /\ Arrive(AfterPull)
     \/ /\ Throw("request")
        /\ UNCHANGED <<pullRequest, lastRunStats>>
  /\ UNCHANGED <<options, stageVars, knownBlobShas, treeUrl, referenceTree,
                 blobPromises, taskState, treeVars, mergeVars, repoTrees,
                 repoCommits, baseHead, blobs, branches, pushCount>>

patchIssueResponse ==
  /\ pc = "patchIssue"
  /\ \/ /\ Goto(AfterIssue, Null)
        /\ Arrive(AfterIssue)
     \/ /\ Throw("request")
        /\ UNCHANGED lastRunStats
  /\ UNCHANGED <<options, stageVars, knownBlobShas, treeUrl, referenceTree,
                 blobPromises, taskState, treeVars, mergeVars, remoteVars, pushCount>>

postReviewersResponse ==
  /\ pc = "postReviewers"
  /\ \/ /\ Goto(AfterReviewers, Null)
        /\ Arrive(AfterReviewers)
     \/ /\ Throw("request")
        /\ UNCHANGED lastRunStats
  /\ UNCHANGED <<options, stageVars, knownBlobShas, treeUrl, referenceTree,
                 blobPromises, taskState, treeVars, mergeVars, remoteVars, pushCount>>

-----------------------------------------------------------------------------
(* MergeOrchestrator: the wait for the checks, the merge, the branch cleanup *)

\* await sleep(auto_merge_delay)
sleepDelay ==
  /\ pc = "sleepDelay"
  /\ Goto("getCheckRuns0", Null)
  /\ UNCHANGED <<options, stageVars, knownBlobShas, lastRunStats, treeUrl,
                 referenceTree, blobPromises, taskState, treeVars, mergeVars,
                 remoteVars, pushCount>>

\* What the remote answers to a poll when the resource reads now: a 304 without
\* json when the poll carries the etag of just that, the json and its etag otherwise
PollResponse(now, header) ==
  IF header.present /\ now = header.etag
  THEN [json |-> FALSE, data |-> now, etag |-> now, status |-> 304]
  ELSE [json |-> TRUE, data |-> now, etag |-> now, status |-> 200]

\* PrStatusOf that spreads jsonResult whatever it is: {...jsonResult, status, etag}
PrStatusOf_noOriginalData(response, originalData) ==
  IF response.json
  THEN [mergeable_state |-> response.data, etag |-> response.etag,
        status |-> response.status]
  ELSE [mergeable_state |-> Null, etag |-> response.etag,
        status |-> response.status]

\* _getPrStatus: {...jsonResult, status, etag}, or {...originalData, status}
PrStatusOf(response, originalData) ==
  IF response.json
  THEN [mergeable_state |-> response.data, etag |-> response.etag,
        status |-> response.status]
  ELSE [originalData EXCEPT !.status = response.status]

\* _getPrCheckStatus: {...jsonResult, status, etag}, or {...originalData, status}
CheckStatusOf(response, originalData) ==
  IF response.json
  THEN [check_runs |-> response.data, etag |-> response.etag,
        status |-> response.status]
  ELSE [originalData EXCEPT !.status = response.status]

\* WaitCondition without the look at the check runs
WaitCondition_unknownOnly(pr, checks) == pr.mergeable_state = "unknown"

\* the condition of the while loop
WaitCondition(pr, checks) ==
  \/ pr.mergeable_state = "unknown"
  \/ /\ pr.mergeable_state \in {"blocked", "unstable"}
     /\ \E i \in 1..Len(checks.check_runs) : checks.check_runs[i].status # "completed"

\* checkStatus.check_runs.find(x => x.conclusion === "failure")
FailedCheck(checks) ==
  \E i \in 1..Len(checks.check_runs) : checks.check_runs[i].conclusion = "failure"

\* the first poll of the check runs, before the loop
getCheckRuns0Response ==
  /\ pc = "getCheckRuns0"
  /\ \/ \E runs \in CheckLists :
          /\ checkStatus' = CheckStatusOf(PollResponse(runs, ifNoneMatch),
                                          NoCheckStatus)
          /\ Goto("getPull0", Null)
     \/ /\ Throw("request")
        /\ UNCHANGED checkStatus
  /\ UNCHANGED <<options, stageVars, knownBlobShas, lastRunStats, treeUrl,
                 referenceTree, blobPromises, taskState, treeVars, prStatus,
                 waitAttemps, ifNoneMatch, remoteVars, pushCount>>

\* the first poll of the pull request, and the first test of the loop condition
getPull0Response ==
  /\ pc = "getPull0"
  /\ \/ \E m \in MergeableStates :
          LET pr == PrStatusOf(PollResponse(m, ifNoneMatch), NoPrStatus) IN
          /\ prStatus' = pr
          /\ waitAttemps' = 0
          /\ IF WaitCondition(pr, checkStatus)
             THEN Goto("sleep", Null)
             ELSE Goto("putMerge", Null)
     \/ /\ Throw("request")
        /\ UNCHANGED <<prStatus, waitAttemps>>
  /\ UNCHANGED <<options, stageVars, knownBlobShas, lastRunStats, treeUrl,
                 referenceTree, blobPromises, taskState, treeVars, checkStatus,
                 ifNoneMatch, remoteVars, pushCount>>

\* await sleep(1000), then the poll of the pull request goes out
sleep ==
  /\ pc = "sleep"
  /\ Goto("getPull", Null)
  /\ ifNoneMatch' = IfNoneMatch(prStatus.etag)
  /\ UNCHANGED <<options, stageVars, knownBlobShas, lastRunStats, treeUrl,
                 referenceTree, blobPromises, taskState, treeVars, prStatus,
                 checkStatus, waitAttemps, remoteVars, pushCount>>

\* a poll of the pull request inside the loop: 304 when it is as the etag says
getPullResponse ==
  /\ pc = "getPull"
  /\ \/ \E m \in MergeableStates :
          /\ prStatus' = PrStatusOf(PollResponse(m, ifNoneMatch), prStatus)
          /\ Goto("getCheckRuns", Null)
          /\ ifNoneMatch' = IfNoneMatch(checkStatus.etag)
     \/ /\ Throw("request")
        /\ UNCHANGED <<prStatus, ifNoneMatch>>
  /\ UNCHANGED <<options, stageVars, knownBlobShas, lastRunStats, treeUrl,
                 referenceTree, blobPromises, taskState, treeVars, checkStatus,
                 waitAttemps, remoteVars, pushCount>>

\* getCheckRunsResponse with the count of attempts tested by >= in place of >
getCheckRunsResponse_atLeast ==
  /\ pc = "getCheckRuns"
  /\ \/ \E runs \in CheckLists :
          LET checks == CheckStatusOf(PollResponse(runs, ifNoneMatch), checkStatus)
          IN
          /\ checkStatus' = checks
          /\ IF FailedCheck(checks)
             THEN /\ Throw("checkFailed")
                  /\ UNCHANGED waitAttemps
             ELSE /\ waitAttemps' = waitAttemps + 1
                  /\ IF waitAttemps + 1 >= MaxWaitAttemps
                     THEN Throw("timeout")
                     ELSE IF WaitCondition(prStatus, checks)
                     THEN Goto("sleep", Null)
                     ELSE Goto("putMerge", Null)
     \/ /\ Throw("request")
        /\ UNCHANGED <<checkStatus, waitAttemps>>
  /\ UNCHANGED <<options, stageVars, knownBlobShas, lastRunStats, treeUrl,
                 referenceTree, blobPromises, taskState, treeVars, prStatus,
                 ifNoneMatch, remoteVars, pushCount>>

\* a poll of the check runs inside the loop, and the rest of the loop body: the
\* failed check, the count of attempts, the next test of the loop condition
getCheckRunsResponse ==
  /\ pc = "getCheckRuns"
  /\ \/ \E runs \in CheckLists :
          LET checks == CheckStatusOf(PollResponse(runs, ifNoneMatch), checkStatus)
          IN
          /\ checkStatus' = checks
          /\ IF FailedCheck(checks)
             THEN /\ Throw("checkFailed")
                  /\ UNCHANGED waitAttemps
             ELSE /\ waitAttemps' = waitAttemps + 1
                  /\ IF waitAttemps + 1 > MaxWaitAttemps
                     THEN Throw("timeout")
                     ELSE IF WaitCondition(prStatus, checks)
                     THEN Goto("sleep", Null)
                     ELSE Goto("putMerge", Null)
     \/ /\ Throw("request")
        /\ UNCHANGED <<checkStatus, waitAttemps>>
  /\ UNCHANGED <<options, stageVars, knownBlobShas, lastRunStats, treeUrl,
                 referenceTree, blobPromises, taskState, treeVars, prStatus,
                 ifNoneMatch, remoteVars, pushCount>>

\* putMergeResponse that removes the branch when the merge is refused
putMergeResponse_deleteOnFailure ==
  /\ pc = "putMerge"
  /\ \/ /\ pullRequest' = "merged"
        /\ repoCommits' = Append(repoCommits,
                                 [tree |-> repoCommits[commit.sha].tree,
                                  parent |-> baseHead])
        /\ baseHead' = Len(repoCommits) + 1
        /\ Goto("headRef", commit.sha)
     \/ /\ Goto("deleteRef", commit.sha)
        /\ UNCHANGED <<pullRequest, repoCommits, baseHead>>
  /\ UNCHANGED <<options, stageVars, knownBlobShas, lastRunStats, treeUrl,
                 referenceTree, blobPromises, taskState, treeVars, mergeVars,
                 repoTrees, blobs, branches, pushCount>>

\* the merge came back: the remote has squashed the branch onto the base
putMergeResponse ==
  /\ pc = "putMerge"
  /\ \/ /\ pullRequest' = "merged"
        /\ repoCommits' = Append(repoCommits,
                                 [tree |-> repoCommits[commit.sha].tree,
                                  parent |-> baseHead])
        /\ baseHead' = Len(repoCommits) + 1
        /\ Goto("headRef", commit.sha)
     \/ /\ Throw("request")
        /\ UNCHANGED <<pullRequest, repoCommits, baseHead>>
  /\ UNCHANGED <<options, stageVars, knownBlobShas, lastRunStats, treeUrl,
                 referenceTree, blobPromises, taskState, treeVars, mergeVars,
                 repoTrees, blobs, branches, pushCount>>

\* the remote removes the branch of a merged pull request by itself
remoteAutoDelete ==
  /\ pullRequest = "merged"
  /\ pc \in {"headRef", "deleteRef"}
  /\ commit.sha \in branches
  /\ branches' = branches \ {commit.sha}
  /\ UNCHANGED <<options, stageVars, knownBlobShas, lastRunStats, pc, err, treeUrl,
                 referenceTree, blobPromises, taskState, treeVars, mergeVars,
                 repoTrees, repoCommits, baseHead, blobs, pullRequest, pushCount,
                 log>>

\* the HEAD of the branch ref came back: 200 and the delete goes out, or 404
headRefResponse ==
  /\ pc = "headRef"
  /\ \/ /\ commit.sha \in branches
        /\ Goto("deleteRef", commit.sha)
        /\ UNCHANGED lastRunStats
     \/ /\ commit.sha \notin branches
        /\ Goto("done", Null)
        /\ Arrive("done")
     \/ /\ Throw("request")
        /\ UNCHANGED lastRunStats
  /\ UNCHANGED <<options, stageVars, knownBlobShas, treeUrl, referenceTree,
                 blobPromises, taskState, treeVars, mergeVars, remoteVars, pushCount>>

\* the DELETE of the branch ref came back; a ref that is not there is a 422
deleteRefResponse ==
  /\ pc = "deleteRef"
  /\ \/ /\ commit.sha \in branches
        /\ branches' = branches \ {commit.sha}
        /\ Goto("done", Null)
        /\ Arrive("done")
     \/ /\ commit.sha \notin branches
        /\ Throw("deleteRef422")
        /\ UNCHANGED <<branches, lastRunStats>>
     \/ /\ Throw("request")
        /\ UNCHANGED <<branches, lastRunStats>>
  /\ UNCHANGED <<options, stageVars, knownBlobShas, treeUrl, referenceTree,
                 blobPromises, taskState, treeVars, mergeVars, repoTrees,
                 repoCommits, baseHead, blobs, pullRequest, pushCount>>

-----------------------------------------------------------------------------
(* The instance after construction, and the repository it is pointed at *)

\* the trees the base branch starts with: files in the configured folder, and,
\* when that is a sub-folder, one file outside it
InitTrees(path) ==
  {[p \in FullPaths |->
      IF p = path \o <<"a">> THEN a
      ELSE IF p = path \o <<"d", "c">> THEN "h1"
      ELSE IF path # <<>> /\ p = <<"a">> THEN "h2"
      ELSE Absent] : a \in {Absent, "h1"}}

TreeShas(t) == {t[p] : p \in FullPaths} \ {Absent}

\* the constructor's defaults: recursive true, contentToBlobBytes 1000
DirectOptions ==
  [path : {<<>>, SubPath}, recursive : BOOLEAN, deleteOtherFiles : BOOLEAN,
   contentToBlobBytes : {1000, 5000000}, pull_request : {FALSE},
   issue_options : {FALSE}, review_options : {FALSE},
   automatic_merge : {FALSE}, automatic_merge_delay : {FALSE}]

\* nothing is staged
EmptyMap == [p \in FullPaths |-> NoEntry]

\* a new instance with options opts, and a repository whose base branch holds t
Constructed(opts, t) ==
  /\ options = opts
  /\ knownBlobShas = {}
  /\ lastRunStats = NewRunStats
  /\ pc = "idle"
  /\ err = "none"
  /\ treeUrl = ""
  /\ referenceTree = <<>>
  /\ blobPromises = {}
  /\ taskState = [h \in Shas |-> "none"]
  /\ tree = <<>>
  /\ treeParts = <<>>
  /\ treeAt = 0
  /\ evalIndex = 0
  /\ baseSha = NoObject
  /\ createTreeResult = NoObject
  /\ partIndex = 0
  /\ commit = NoCommit
  /\ prStatus = NoPrStatus
  /\ checkStatus = NoCheckStatus
  /\ waitAttemps = 0
  /\ ifNoneMatch = NoHeader
  /\ repoTrees = <<t>>
  /\ repoCommits = <<[tree |-> 1, parent |-> 0]>>
  /\ baseHead = 1
  /\ blobs = TreeShas(t)
  /\ branches = {}
  /\ pullRequest = "none"
  /\ pushCount = 0
  /\ log = <<>>

Init ==
  \E opts \in DirectOptions : \E t \in InitTrees(opts.path) :
    /\ Constructed(opts, t)
    /\ fileOrder = <<>>
    /\ fileMap = EmptyMap
    /\ stageOps = 0

Stage ==
  \E path \in Keys :
    \/ \E value \in StageValues : addFile(path, value)
    \/ ignoreFile(path)

BlobTask == \E h \in Shas : probeResponse(h) \/ uploadResponse(h)

Next ==
  \/ Stage
  \/ treePushStart
  \/ readContentsResponse
  \/ readTreeResponse
  \/ syncBlobs
  \/ BlobTask
  \/ awaitBlobs
  \/ deltaTree
  \/ splitStep
  \/ splitDone
  \/ getRefResponse
  \/ postTreeResponse
  \/ postCommitResponse
  \/ getCompareResponse
  \/ patchRefResponse

Spec == Init /\ [][Next]_vars

-----------------------------------------------------------------------------
(* The pull request flow on its own: one small file staged; without
   automatic_merge every combination of issue_options and review_options, with
   it all of issue_options, review_options, automatic_merge_delay or none *)

MergeOptions ==
  {o \in [path : {<<>>}, recursive : {TRUE}, deleteOtherFiles : {FALSE},
          contentToBlobBytes : {1000}, pull_request : {TRUE},
          issue_options : BOOLEAN, review_options : BOOLEAN,
          automatic_merge : BOOLEAN, automatic_merge_delay : BOOLEAN] :
     IF o.automatic_merge
     THEN o.issue_options = o.review_options
          /\ o.review_options = o.automatic_merge_delay
     ELSE ~o.automatic_merge_delay}

InitMerge ==
  \E opts \in MergeOptions :
    /\ Constructed(opts, [p \in FullPaths |-> Absent])
    /\ fileOrder = << <<"a">> >>
    /\ fileMap = [EmptyMap EXCEPT ![<<"a">>] = newFile([type |-> "string", bytes |-> "c1"])]
    /\ stageOps = 1

\* the caller pushes once
treePushOnce == pushCount = 0 /\ treePushStart

NextMerge ==
  \/ treePushOnce
  \/ readTreeResponse
  \/ syncBlobs
  \/ deltaTree
  \/ splitStep
  \/ splitDone
  \/ getRefResponse
  \/ postTreeResponse
  \/ postCommitResponse
  \/ getCompareResponse
  \/ postRefResponse
  \/ postPullResponse
  \/ patchIssueResponse
  \/ postReviewersResponse
  \/ sleepDelay
  \/ getCheckRuns0Response
  \/ getPull0Response
  \/ sleep
  \/ getPullResponse
  \/ getCheckRunsResponse
  \/ putMergeResponse
  \/ remoteAutoDelete
  \/ headRefResponse
  \/ deleteRefResponse

SpecMerge == InitMerge /\ [][NextMerge]_vars

-----------------------------------------------------------------------------
(* The split loop and the requests that follow it, on its own: treePush has just
   computed a delta of up to MaxRows rows for files staged at the repository's
   root, some of them large; large content is sent inline because
   contentToBlobBytes is above its size *)

MaxRows == Len(FullPathSeq)

SplitOptions ==
  [path |-> <<>>, recursive |-> TRUE, deleteOtherFiles |-> TRUE,
   contentToBlobBytes |-> 10000000, pull_request |-> FALSE,
   issue_options |-> FALSE, review_options |-> FALSE,
   automatic_merge |-> FALSE, automatic_merge_delay |-> FALSE]

\* the large strings that are staged, one of them over the ceiling by itself
SplitContents == {"c2", "c3", "c4"}

\* what stands at each path: a staged string (its content is new to the remote),
\* a staged Buffer of c1's bytes, or a file of the repository that is not staged
RowKinds == SplitContents \cup {"buffer", "remote"}

\* the rows come as _deltaTree emits them: staged entries first, each content
\* staged once, the repository's other files last
SplitShapes ==
  {sh \in UNION {[1..n -> RowKinds] : n \in 1..MaxRows} :
     /\ \A i, j \in 1..Len(sh) : (i < j /\ sh[i] = "remote") => sh[j] = "remote"
     /\ \A i, j \in 1..Len(sh) : (i < j /\ sh[i] \in SplitContents) => sh[i] # sh[j]}

HasKind(sh, kind) == \E i \in 1..Len(sh) : sh[i] = kind

\* the Buffer's blob was probed and uploaded by _syncBlobs unless the snapshot
\* had its sha
ShapeUploaded(sh) == HasKind(sh, "buffer") /\ ~HasKind(sh, "remote")
ShapeKnown(sh) ==
  IF HasKind(sh, "buffer") \/ HasKind(sh, "remote") THEN {"h1"} ELSE {}

ShapeEntry(kind) ==
  IF kind = "remote" THEN NoEntry
  ELSE IF kind = "buffer" THEN newFile([type |-> "buffer", bytes |-> "c1"])
  ELSE newFile([type |-> "string", bytes |-> kind])

ShapeMap(sh) ==
  [p \in FullPaths |->
     IF \E i \in 1..Len(sh) : FullPathSeq[i] = p
     THEN ShapeEntry(sh[CHOOSE i \in 1..Len(sh) : FullPathSeq[i] = p])
     ELSE NoEntry]

\* the base branch: the files that are not staged, each holding c1's blob
ShapeTree(sh) ==
  [p \in FullPaths |->
     IF \E i \in 1..Len(sh) : FullPathSeq[i] = p /\ sh[i] = "remote"
     THEN "h1" ELSE Absent]

InitSplit ==
  \E sh \in SplitShapes :
    LET staged == SelectSeq([i \in 1..Len(sh) |-> FullPathSeq[i]],
                            LAMBDA p : ShapeMap(sh)[p].kind = "file")
        ref == TreeListing(ShapeTree(sh), <<>>, TRUE)
        rows == [i \in 1..Len(sh) |->
                   IF sh[i] = "remote" THEN [path |-> FullPathSeq[i], sha |-> Null,
                                            content |-> Absent]
                   ELSE IF sh[i] = "buffer" THEN [path |-> FullPathSeq[i],
                                                  sha |-> "h1", content |-> Absent]
                   ELSE [path |-> FullPathSeq[i], sha |-> Absent, content |-> sh[i]]]
    IN
    /\ options = SplitOptions
    /\ fileOrder = staged
    /\ fileMap = ShapeMap(sh)
    /\ stageOps = Len(staged)
    /\ knownBlobShas = ShapeKnown(sh)
    /\ lastRunStats = [NewRunStats EXCEPT
                         !.Target_Tree_Size = Len(ref),
                         !.Tree_Operations = Len(rows),
                         !.Blobs_Uploaded = IF ShapeUploaded(sh) THEN 1 ELSE 0]
    /\ pc = "split"
    /\ err = "none"
    /\ treeUrl = "base"
    /\ referenceTree = ref
    /\ blobPromises = IF ShapeUploaded(sh) THEN {"h1"} ELSE {}
    /\ taskState = [h \in Shas |->
                      IF h = "h1" /\ ShapeUploaded(sh) THEN "done" ELSE "none"]
    /\ tree = rows
    /\ treeParts = <<rows>>
    /\ treeAt = 1
    /\ evalIndex = 1
    /\ baseSha = NoObject
    /\ createTreeResult = NoObject
    /\ partIndex = 0
    /\ commit = NoCommit
    /\ prStatus = NoPrStatus
    /\ checkStatus = NoCheckStatus
    /\ waitAttemps = 0
    /\ ifNoneMatch = NoHeader
    /\ repoTrees = <<ShapeTree(sh)>>
    /\ repoCommits = <<[tree |-> 1, parent |-> 0]>>
    /\ baseHead = 1
    /\ blobs = ShapeKnown(sh)
    /\ branches = {}
    /\ pullRequest = "none"
    /\ pushCount = 1
    /\ log = <<[op |-> "getTree", arg |-> Null, push |-> 1]>> \o
               (IF ShapeUploaded(sh)
                THEN <<[op |-> "headBlob", arg |-> "h1", push |-> 1],
                       [op |-> "postBlob", arg |-> "h1", push |-> 1]>>
                ELSE <<>>)

NextSplit ==
  \/ splitStep
  \/ splitDone
  \/ getRefResponse
  \/ postTreeResponse
  \/ postCommitResponse
  \/ getCompareResponse
  \/ patchRefResponse

SpecSplit == InitSplit /\ [][NextSplit]_vars

-----------------------------------------------------------------------------
(* The same stage pushed again: files are staged before the first treePush
   only, and treePush is called again once the one before has returned *)

StageFirst == pushCount = 0 /\ Stage

treePushAgain == (pushCount = 0 \/ pc = "done") /\ treePushStart

NextRepeat ==
  \/ StageFirst
  \/ treePushAgain
  \/ readContentsResponse
  \/ readTreeResponse
  \/ syncBlobs
  \/ BlobTask
  \/ awaitBlobs
  \/ deltaTree
  \/ splitStep
  \/ splitDone
  \/ getRefResponse
  \/ postTreeResponse
  \/ postCommitResponse
  \/ getCompareResponse
  \/ patchRefResponse

SpecRepeat == Init /\ [][NextRepeat]_vars

-----------------------------------------------------------------------------
(* Both modes side by side: one push, direct or by pull request (without
   automatic_merge), of one file that is new to the branch, or of one file that
   the branch holds already in a sub-folder *)

ModeOptions ==
  [path : {<<>>}, recursive : BOOLEAN, deleteOtherFiles : {FALSE},
   contentToBlobBytes : {1000}, pull_request : BOOLEAN,
   issue_options : BOOLEAN, review_options : BOOLEAN,
   automatic_merge : {FALSE}, automatic_merge_delay : {FALSE}]

\* what is staged: large text at a, or at d/c a Buffer of the bytes of c1
ModeStages ==
  {[path |-> <<"a">>, value |-> [type |-> "string", bytes |-> "c2"]],
   [path |-> <<"d", "c">>, value |-> [type |-> "buffer", bytes |-> "c1"]]}

InitModes ==
  \E opts \in ModeOptions : \E t \in InitTrees(<<>>) : \E st \in ModeStages :
    /\ (opts.issue_options \/ opts.review_options) => opts.pull_request
    /\ Constructed(opts, t)
    /\ fileOrder = <<st.path>>
    /\ fileMap = [EmptyMap EXCEPT ![st.path] = newFile(st.value)]
    /\ stageOps = 1

NextModes ==
  \/ treePushOnce
  \/ readTreeResponse
  \/ syncBlobs
  \/ BlobTask
  \/ awaitBlobs
  \/ deltaTree
  \/ splitStep
  \/ splitDone
  \/ getRefResponse
  \/ postTreeResponse
  \/ postCommitResponse
  \/ getCompareResponse
  \/ patchRefResponse
  \/ postRefResponse
  \/ postPullResponse
  \/ patchIssueResponse
  \/ postReviewersResponse

SpecModes == InitModes /\ [][NextModes]_vars

-----------------------------------------------------------------------------
(* The requests of the running treePush *)

Requests(op) == SelectSeq(log, LAMBDA r : r.op = op)
Issued(op) == Len(Requests(op))

-----------------------------------------------------------------------------
(* CommitBuilder: one commit for the whole delta *)

\* C1: a treePush never issues more than one create-commit request, and a
\* treePush that returns with a delta of at least one row has issued exactly one,
\* whether the split loop left one part or several to the create-tree requests.
C1_OneCommitForDelta ==
  /\ Issued("postCommit") <= 1
  /\ (pc = "done" /\ tree # <<>>) => Issued("postCommit") = 1

\* a treePush has returned after several create-tree requests and one commit
C1_Witness ==
  /\ pc = "done"
  /\ tree # <<>>
  /\ Issued("postTree") >= 2
  /\ Issued("postCommit") = 1

-----------------------------------------------------------------------------
(* Idempotence *)

\* the counters of lastRunStats that count work done
NoWorkInStats ==
  /\ lastRunStats.Tree_Operations = 0
  /\ lastRunStats.Blobs_Uploaded = 0
  /\ lastRunStats.Text_Content_Uploaded = 0
  /\ lastRunStats.Files_Deleted = 0
  /\ lastRunStats.Files_Referenced = 0

\* a treePush of a stage that the treePush before it has pushed
NothingToPush ==
  /\ tree = <<>>
  /\ Issued("postTree") = 0
  /\ Issued("postCommit") = 0
  /\ Issued("getCompare") = 0
  /\ Issued("patchRef") = 0
  /\ pc = "done" => NoWorkInStats

StagedInSubFolder ==
  \E k \in FullPaths : fileMap[k].kind = "file" /\ Len(k) > 1

-----------------------------------------------------------------------------
(* BlobSyncer and DeltaComputer: what is sent of a content *)

\* the staged paths whose entry has digest d
StagedWith(d) == {k \in FullPaths : fileMap[k].kind = "file" /\ fileMap[k].sha = d}

\* the snapshot of the remote tree holds a file of digest d
InSnapshot(d) == \E i \in 1..Len(referenceTree) : referenceTree[i].sha = d

\* the requests about the blob d that the running treePush has issued
ProbesOf(requests, d) ==
  Len(SelectSeq(requests, LAMBDA r : r.op = "headBlob" /\ r.arg = d
                                       /\ r.push = pushCount))
UploadsOf(requests, d) ==
  Len(SelectSeq(requests, LAMBDA r : r.op = "postBlob" /\ r.arg = d
                                       /\ r.push = pushCount))

\* the rows of the delta that reference d by sha, and that carry d's content
RowsBySha(d) == SelectSeq(tree, LAMBDA x : x.sha = d)
RowsInline(d) ==
  SelectSeq(tree, LAMBDA x : x.content # Absent
                               /\ gitHubBlobPredictSha(x.content) = d)

\* treePush has computed the delta and has not returned
AfterDelta ==
  pc \in {"split", "getRef", "postTree", "postCommit", "getCompare", "patchRef"}

\* two or more paths are staged with the digest d that the snapshot has not
DuplicateStaged(d) == Cardinality(StagedWith(d)) >= 2 /\ ~InSnapshot(d)

\* every path staged with d has its row that references d, none carries content
DuplicateRows(d) ==
  /\ Len(RowsBySha(d)) = Cardinality(StagedWith(d))
  /\ \A k \in StagedWith(d) :
       \E i \in 1..Len(tree) : tree[i].path = options.path \o k /\ tree[i].sha = d
  /\ RowsInline(d) = <<>>

\* C3 as claimed: when two paths are staged with the same content and the
\* snapshot has not its digest, the treePush has issued exactly one probe and
\* exactly one upload of that digest by the time the delta is computed, and the
\* delta has a row by sha for each of the paths and none with the content.
C3_OneProbeOneUpload ==
  \A d \in Shas :
    (AfterDelta /\ DuplicateStaged(d)) =>
        /\ ProbesOf(log, d) = 1
        /\ UploadsOf(log, d) = 1
        /\ DuplicateRows(d)

\* by the time the delta is computed: at most one probe, an upload only after
\* the probe, the rows by sha
C3_AtMostOneUpload ==
  \A d \in Shas :
    (AfterDelta /\ DuplicateStaged(d)) =>
        /\ ProbesOf(log, d) <= 1
        /\ UploadsOf(log, d) <= ProbesOf(log, d)
        /\ DuplicateRows(d)

\* the loop of _syncBlobs probes a duplicate once when its digest is not known
\* to the instance, and not at all when it is
C3_ProbeWhenNotKnown ==
  (pc = "syncBlobs" /\ pc' # "syncBlobs" /\ pc' # "failed") =>
      \A d \in Shas :
        Cardinality(StagedWith(d)) >= 2 =>
            ProbesOf(log', d) = (IF d \in knownBlobShas THEN 0 ELSE 1)

\* C3 amended: when two paths are staged with the same content and the
\* snapshot has not its digest, the treePush issues exactly one probe of that
\* digest if the instance does not know the digest from an earlier treePush and
\* none if it does, at most one upload and that only after the probe (none when
\* the probe finds the blob), and the delta has a row by sha for each of the
\* paths and none with the content.
C3_OneProbeAtMostOneUpload ==
  []C3_AtMostOneUpload /\ [][C3_ProbeWhenNotKnown]_vars

\* a duplicate was probed once and uploaded once, and both rows are by sha
C3_Witness ==
  \E d \in Shas :
    /\ AfterDelta
    /\ DuplicateStaged(d)
    /\ ProbesOf(log, d) = 1
    /\ UploadsOf(log, d) = 1
    /\ Len(RowsBySha(d)) = 2

\* the entry at k holds text longer than contentToBlobBytes
LargeText(k) ==
  /\ fileMap[k].kind = "file"
  /\ fileMap[k].content # Null
  /\ ByteLength(fileMap[k].content) > options.contentToBlobBytes

\* the entry at k holds text at or under contentToBlobBytes and no other staged
\* entry has its digest
SmallUniqueText(k) ==
  /\ fileMap[k].kind = "file"
  /\ fileMap[k].content # Null
  /\ ByteLength(fileMap[k].content) <= options.contentToBlobBytes
  /\ StagedWith(fileMap[k].sha) = {k}

\* _syncBlobs has run its loop without a throw
SyncBlobsRan == pc = "syncBlobs" /\ pc' # "syncBlobs" /\ pc' # "failed"

Promoted(k) == fileMap'[k].content = Null /\ fileMap'[k].buffer # Null
KeptInline(k) ==
  fileMap'[k].content = fileMap[k].content /\ fileMap'[k].buffer = Null

\* an entry before k in the order of the map has the digest of k
StagedEarlier(k) ==
  \E i, j \in 1..Len(fileOrder) :
    /\ i < j
    /\ fileOrder[j] = k
    /\ fileMap[fileOrder[i]].kind = "file"
    /\ fileMap[fileOrder[i]].sha = fileMap[k].sha

\* C4 as claimed: after _syncBlobs every entry with text longer than
\* contentToBlobBytes has content = null and a buffer, and every entry with text
\* at or under it and a digest of its own keeps its content inline.
C4_LargeAlwaysPromoted ==
  [][SyncBlobsRan =>
       \A k \in FullPaths :
         /\ LargeText(k) => Promoted(k)
         /\ SmallUniqueText(k) => KeptInline(k)]_vars

\* C4 amended: after _syncBlobs every entry with text longer than
\* contentToBlobBytes whose digest the instance does not know when the loop
\* reaches it (it is not in the snapshot, not known from an earlier treePush
\* and no entry before it in the map has it) has content = null and a buffer,
\* one whose digest is known keeps its text; and every entry with text at or
\* under the threshold and a digest of its own keeps its content inline.
C4_LargePromotedUnlessKnown ==
  [][SyncBlobsRan =>
       \A k \in FullPaths :
         /\ LargeText(k) =>
              IF fileMap[k].sha \in knownBlobShas \/ StagedEarlier(k)
              THEN fileMap'[k] = fileMap[k]
              ELSE Promoted(k)
         /\ SmallUniqueText(k) => KeptInline(k)]_vars

\* _syncBlobs has promoted a large text and kept a small one inline
C4_Witness ==
  /\ pc = "awaitBlobs"
  /\ \E k1, k2 \in FullPaths :
       /\ fileMap[k1].kind = "file"
       /\ fileMap[k1].content = Null
       /\ fileMap[k1].buffer \in {"c2", "c3"}
       /\ ByteLength(fileMap[k1].buffer) > options.contentToBlobBytes
       /\ SmallUniqueText(k2)
       /\ fileMap[k2].buffer = Null

\* the snapshot holds A with digest d, A is not staged, B is staged with d
Renamed(A, B, d) ==
  /\ options.deleteOtherFiles
  /\ \E i \in 1..Len(referenceTree) :
       referenceTree[i].path = A /\ referenceTree[i].sha = d
  /\ ~MapHas(A)
  /\ fileMap[B].kind = "file"
  /\ fileMap[B].sha = d

\* the delta deletes A and sets B to d by sha; nothing of d's content is sent
RenameRows(A, B, d) ==
  /\ \E i \in 1..Len(tree) : tree[i] = deleteRow(A)
  /\ \E i \in 1..Len(tree) :
       tree[i] = [path |-> options.path \o B, sha |-> d, content |-> Absent]
  /\ RowsInline(d) = <<>>
  /\ ProbesOf(log, d) = 0
  /\ UploadsOf(log, d) = 0

\* C5 as claimed: with deleteOtherFiles on, when the snapshot holds A with
\* digest d, A is not staged and B is staged with content of digest d, the delta
\* has the row that deletes A and the row that sets B to d by sha, and the
\* content is sent neither inline nor by a probe or an upload of its blob.
C5_RenameRows ==
  \A A, B \in FullPaths : \A d \in Shas :
    (AfterDelta /\ Renamed(A, B, d)) => RenameRows(A, B, d)

\* C5 amended: the same, when the snapshot does not already hold B with
\* digest d (no row is computed for B when it does).
C5_RenameRowsUnlessHeld ==
  \A A, B \in FullPaths : \A d \in Shas :
    (AfterDelta /\ Renamed(A, B, d) /\ ExistingFile(referenceTree, B).sha # d) =>
        RenameRows(A, B, d)

\* a delta that deletes A and sets B to the digest A had
C5_Witness ==
  \E A, B \in FullPaths : \E d \in Shas :
    /\ AfterDelta
    /\ Renamed(A, B, d)
    /\ ExistingFile(referenceTree, B).sha # d
    /\ RenameRows(A, B, d)

-----------------------------------------------------------------------------
(* CommitBuilder: the split of the delta *)

\* the parts as the create-tree requests carried them, in the order submitted
SubmittedParts ==
  [i \in 1..Issued("postTree") |-> Requests("postTree")[i].arg.tree]

\* C6: once every create-tree request of a delta whose serialized size is over
\* the payload ceiling has been submitted, there were two or more of them and
\* their parts, concatenated in the order submitted, are the row list of the
\* delta in its order (so each part is a contiguous sub-list of it).
C6_SplitKeepsOrder ==
  (Issued("postCommit") = 1 /\ TooLong(tree)) =>
      /\ Len(SubmittedParts) >= 2
      /\ Flatten(SubmittedParts) = tree

\* no single row of the delta is over the ceiling by itself
EveryRowFits == \A i \in 1..Len(tree) : ~TooLong(<<tree[i]>>)

\* C7: when each single row of the delta is itself under the payload ceiling,
\* every part submitted in a create-tree request has a serialized size at or
\* under the ceiling.
C7_SubmittedPartsFit ==
  EveryRowFits =>
      \A i \in 1..Len(SubmittedParts) : ~TooLong(SubmittedParts[i])

-----------------------------------------------------------------------------
(* MergeOrchestrator: the wait loop and the branch cleanup *)

\* C8: in auto-merge mode, once a poll of the check runs has shown a check whose
\* conclusion is failure, the treePush issues no merge request and does not
\* return normally: it ends in the check-failed error (or in the error of a
\* request that failed by itself before the check list was looked at).
C8_FailedCheckStopsMerge ==
  FailedCheck(checkStatus) =>
      /\ Issued("putMerge") = 0
      /\ pc # "done"
      /\ pc = "failed" => err \in {"checkFailed", "request"}

\* C9 as claimed: the wait loop never starts more than 100 sleep-and-poll
\* iterations, and the timeout error comes with no merge request.
C9_AtMost100Iterations ==
  /\ Issued("getPull") <= MaxWaitAttemps
  /\ err = "timeout" => Issued("putMerge") = 0

\* C9 as the code has it: the wait loop never starts more than 101
\* sleep-and-poll iterations; the 101st, when it shows no failed check, ends in
\* the timeout error whatever the wait condition is by then; the timeout error
\* is raised by the 101st iteration only and no merge request goes with it.
C9_AtMost101Iterations ==
  /\ Issued("getPull") <= MaxWaitAttemps + 1
  /\ waitAttemps <= MaxWaitAttemps + 1
  /\ waitAttemps = MaxWaitAttemps + 1 => (pc = "failed" /\ err = "timeout")
  /\ err = "timeout" =>
       /\ pc = "failed"
       /\ waitAttemps = MaxWaitAttemps + 1
       /\ Issued("getPull") = MaxWaitAttemps + 1
       /\ Issued("putMerge") = 0
  /\ (waitAttemps = MaxWaitAttemps /\ pc \notin {"getPull", "getCheckRuns"}) =>
       pc \in {"sleep", "putMerge", "headRef", "deleteRef", "done", "failed"}

\* the wait loop has given up after its 101st poll
C9_Witness ==
  /\ pc = "failed"
  /\ err = "timeout"
  /\ Issued("getPull") = MaxWaitAttemps + 1
  /\ Issued("getCheckRuns") = MaxWaitAttemps + 1

\* C10: after the merge, whenever the remote has removed the branch of the pull
\* request by itself, the treePush does not end in the error of a delete of a
\* ref that is not there.
C10_AbsentRefIsNoError ==
  (pullRequest = "merged" /\ commit.sha \notin branches /\ pc = "failed") =>
      err # "deleteRef422"

-----------------------------------------------------------------------------
(* MergeOrchestrator: the merge and the checks that are still running *)

\* the check runs of the list polled last that have not completed
RunningChecks ==
  {i \in 1..Len(checkStatus.check_runs) :
     checkStatus.check_runs[i].status # "completed"}

\* C11: with automatic_merge, when the merge request is issued every check run
\* of the check-run list polled last has status completed, whatever
\* mergeable_state the remote reports.
C11_MergeAfterChecksCompleted ==
  (options.automatic_merge /\ Issued("putMerge") > 0 /\ pc = "putMerge")
    => RunningChecks = {}

-----------------------------------------------------------------------------
(* FileStage: ignored paths *)

\* the paths that are marked with ignoreFile
IgnoredPaths == {k \in FullPaths : fileMap[k].kind = Null}

\* a treePush is running
Running == ~StageIdle

\* the rows of the delta for path k
RowsFor(k) == SelectSeq(tree, LAMBDA x : x.path = options.path \o k)

\* C12: a push whose stage holds ignored paths does not fail because of them,
\* and while it runs its delta has no row of any kind for an ignored path (the
\* push issues no probe and no upload for one either: an ignored path has no
\* digest, so no request of the log can be for it).
C12_IgnoredPathIsSkipped ==
  (pushCount > 0 /\ IgnoredPaths # {}) =>
    /\ err # "typeError"
    /\ Running => \A k \in IgnoredPaths : RowsFor(k) = <<>>

-----------------------------------------------------------------------------
(* BlobSyncer: a known digest is not probed or uploaded again *)

\* C13: within one push every digest is probed at most once and uploaded at
\* most once (and only after its probe), however many staged entries share it
\* and however the probes and uploads interleave; a digest that the snapshot
\* seeded into the known set is not probed at all, and a digest that was probed
\* is in the known set.
C13_KnownDigestNotProbedAgain ==
  \A d \in Shas :
    /\ ProbesOf(log, d) <= 1
    /\ UploadsOf(log, d) <= ProbesOf(log, d)
    /\ InSnapshot(d) => ProbesOf(log, d) = 0
    /\ ProbesOf(log, d) = 1 => d \in knownBlobShas

\* two staged entries share a digest; its one probe and its one upload have
\* come back while the push awaits the blobs
C13_Witness ==
  \E d \in Shas :
    /\ Cardinality(StagedWith(d)) >= 2
    /\ pc = "awaitBlobs"
    /\ taskState[d] = "done"
    /\ ProbesOf(log, d) = 1
    /\ UploadsOf(log, d) = 1

-----------------------------------------------------------------------------
(* DeltaComputer: the shapes of a row *)

InlineRow(row) == row.content # Absent /\ row.sha = Absent
ReferenceRow(row) == row.content = Absent /\ row.sha # Absent /\ row.sha # Null
DeletionRow(row) == row.content = Absent /\ row.sha = Null

\* the row has one of the three shapes (no two of them hold of one row)
OneShape(row) == InlineRow(row) \/ ReferenceRow(row) \/ DeletionRow(row)

\* the rows of the create-tree requests issued so far
SubmittedRows == Flatten([i \in 1..Issued("postTree") |->
                            Requests("postTree")[i].arg.tree])

\* C14: every row of a delta, as _deltaTree returns it and as a create-tree
\* request carries it, is an inline row (content, no sha), a reference row (a
\* non-null sha, no content) or a deletion row (sha null, no content); none has
\* content and a sha, none has neither.
C14_RowShapes ==
  /\ \A i \in 1..Len(tree) : OneShape(tree[i])
  /\ \A i \in 1..Len(SubmittedRows) : OneShape(SubmittedRows[i])

\* a delta with a row of each shape has been submitted
C14_Witness ==
  /\ pc = "postTree"
  /\ \E i, j, k \in 1..Len(SubmittedRows) :
       /\ InlineRow(SubmittedRows[i])
       /\ ReferenceRow(SubmittedRows[j])
       /\ DeletionRow(SubmittedRows[k])

-----------------------------------------------------------------------------
(* A delta of zero rows *)

\* the requests that treePush issues after the delta
DownstreamOps ==
  {"postTree", "postCommit", "getCompare", "patchRef", "postRef", "postPull",
   "patchIssue", "postReviewers", "putMerge", "deleteRef"}

DownstreamIssued == SelectSeq(log, LAMBDA r : r.op \in DownstreamOps)

\* the uploads of blobs that the running treePush has issued
UploadsIssued ==
  SelectSeq(log, LAMBDA r : r.op = "postBlob" /\ r.push = pushCount)

\* a treePush whose delta had no row has returned
ZeroDeltaReturned == pc = "done" /\ tree = <<>> /\ pushCount > 0

\* the step in which _deltaTree returns no row
ZeroDeltaStep ==
  pc = "delta" /\ pc' # "delta" /\ _deltaTree(referenceTree) = <<>>

\* from the empty delta treePush returns at once; nothing is asked of the
\* remote and nothing in it changes
C15_ZeroDeltaReturnsAtOnce ==
  ZeroDeltaStep =>
    /\ pc' = "done"
    /\ err' = "none"
    /\ log' = log
    /\ remoteVars' = remoteVars
    /\ lastRunStats' = lastRunStats

\* the push that returned with an empty delta has issued no request that
\* writes, an upload of a blob included
C15_ZeroDeltaNoWrites ==
  ZeroDeltaReturned => (DownstreamIssued = <<>> /\ UploadsIssued = <<>>)

\* C15: a push whose delta has zero rows issues no create-tree, create-commit,
\* compare, create-branch, create-pull-request, merge or ref-update request and
\* no blob upload; it returns its statistics and leaves the remote as it is.
C15_ZeroDeltaIssuesNothing ==
  []C15_ZeroDeltaNoWrites /\ [][C15_ZeroDeltaReturnsAtOnce]_vars

\* a first push of a staged file that the snapshot holds already has returned
\* with an empty delta
C15_Witness ==
  /\ ZeroDeltaReturned
  /\ pushCount = 1
  /\ fileOrder # <<>>
  /\ referenceTree # <<>>
  /\ Issued("getTree") = 1
  /\ repoCommits = <<[tree |-> 1, parent |-> 0]>>

-----------------------------------------------------------------------------
(* BlobSyncer: a probe or an upload that fails *)

\* a probe or an upload of the running treePush has failed
BlobTaskFailed == \E h \in blobPromises : taskState[h] = "failed"

\* the push with the failed task gets no further than the await of the blobs,
\* and has asked for no tree, commit, branch, pull request or ref update
C16_FailedTaskStopsPush ==
  BlobTaskFailed =>
    /\ pc \in {"awaitBlobs", "failed"}
    /\ pc = "failed" => err # "none"
    /\ DownstreamIssued = <<>>

\* the await of the blobs ends in the request's error, and while the failed
\* task is there the base branch stays where it is
C16_FailedTaskThrows ==
  BlobTaskFailed =>
    /\ (pc = "awaitBlobs" /\ pc' # "awaitBlobs") => (pc' = "failed" /\ err' = "request")
    /\ pushCount' = pushCount => baseHead' = baseHead

\* C16: if a blob probe or upload of a push fails, the push fails with the
\* error of the request and issues no create-tree, create-commit, ref-update,
\* create-branch or create-pull-request request; the base branch is unchanged.
C16_BlobFailureAbortsPush ==
  []C16_FailedTaskStopsPush /\ [][C16_FailedTaskThrows]_vars

\* an upload failed after its probe found no blob, and the push has thrown
C16_Witness ==
  \E h \in blobPromises :
    /\ taskState[h] = "failed"
    /\ UploadsOf(log, h) = 1
    /\ pc = "failed"
    /\ err = "request"
    /\ baseHead = 1

-----------------------------------------------------------------------------
(* RemoteTreeReader: a truncated tree *)

\* the running treePush has thrown the error of the truncated tree
TreeTooLarge == pc = "failed" /\ err = "treeTooLarge"

\* the requests of the log that the running treePush issued, but for the reads
\* of the tree
BeyondTreeRead ==
  SelectSeq(log, LAMBDA r : r.op \notin {"getContents", "getTree"}
                              /\ r.push = pushCount)

\* the push that met the truncated tree has read the tree once and has issued
\* nothing else
C17_TruncatedNoRequests ==
  TreeTooLarge => (Issued("getTree") = 1 /\ BeyondTreeRead = <<>>)

\* the step that meets the truncated tree leaves the known shas, the snapshot,
\* the stage, the log and the remote as they are
C17_TruncatedStep ==
  (pc = "getTree" /\ err' = "treeTooLarge") =>
    /\ pc' = "failed"
    /\ knownBlobShas' = knownBlobShas
    /\ referenceTree' = referenceTree
    /\ stageVars' = stageVars
    /\ log' = log
    /\ remoteVars' = remoteVars

\* C17: when the remote reports the fetched tree as truncated the push fails
\* with the tree-too-large error before any write: no blob probe or upload, no
\* create-tree, create-commit or ref request, no second read of the tree, the
\* known shas not seeded from the truncated result, the stage unchanged.
C17_TruncatedTreeFailsEarly ==
  []C17_TruncatedNoRequests /\ [][C17_TruncatedStep]_vars

\* a first push with a file staged has met a truncated tree that lists files
C17_Witness ==
  /\ TreeTooLarge
  /\ pushCount = 1
  /\ fileOrder # <<>>
  /\ FetchedTree # <<>>
  /\ knownBlobShas = {}

-----------------------------------------------------------------------------
(* BlobSyncer: what the probe decides *)

\* the probe of h comes back in this step
ProbeReturns(h) == taskState[h] = "probing" /\ taskState'[h] # "probing"

\* the upload of h goes out in this step, and nothing else
UploadGoesOut(h) ==
  /\ Len(log') = Len(log) + 1
  /\ log'[Len(log')].op = "postBlob"
  /\ log'[Len(log')].arg = h

\* the loop of _syncBlobs probes every entry that leaves it with a buffer and
\* whose sha was not known when the loop began
ProbesIssued ==
  SyncBlobsRan =>
    \A k \in FullPaths :
      (fileMap'[k].kind = "file" /\ fileMap'[k].buffer # Null
         /\ fileMap[k].sha \notin knownBlobShas)
        => ProbesOf(log', fileMap[k].sha) = 1

\* the probe as claimed: not found is followed by the upload, every other
\* result counts as found
ProbeStepAsClaimed ==
  \A h \in Shas :
    ProbeReturns(h) =>
      IF h \notin blobs
      THEN taskState'[h] = "uploading" /\ UploadGoesOut(h)
      ELSE taskState'[h] = "done" /\ log' = log

\* C18 as claimed: for every entry that ends up with a buffer and an unknown
\* digest the probe decides the upload: not found triggers exactly one upload,
\* any other result of the probe is treated as already present, so that no
\* upload is issued and the push continues.
C18_ProbeDecidesUpload == [][ProbesIssued /\ ProbeStepAsClaimed]_vars

\* the probe as it is: the upload follows a probe that did not find the blob,
\* a probe that found it ends the task, a probe that failed ends it in failure;
\* neither of the two issues an upload
ProbeStep ==
  \A h \in Shas :
    ProbeReturns(h) =>
      /\ taskState'[h] \in {"uploading", "done", "failed"}
      /\ taskState'[h] = "uploading" => (h \notin blobs /\ UploadGoesOut(h))
      /\ taskState'[h] = "done" => (h \in blobs /\ log' = log)
      /\ taskState'[h] = "failed" => log' = log

\* the push goes on to the delta only when every one of its tasks is done, and
\* a task that failed keeps it from the delta
ProbeOutcomeAndPush ==
  /\ (blobPromises # {} /\ (pc \in {"delta", "done"} \/ AfterDelta))
       => \A h \in blobPromises : taskState[h] = "done"
  /\ \A h \in blobPromises :
       /\ taskState[h] = "uploading" => UploadsOf(log, h) = 1
       /\ taskState[h] = "failed" => pc \in {"awaitBlobs", "failed"}

\* C18 amended: not found triggers exactly one upload; a probe that succeeds is
\* treated as already present (no upload, the push continues); any other
\* result of the probe fails the task and with it the push, without an upload.
C18_ProbeDecidesUploadOrFails ==
  []ProbeOutcomeAndPush /\ [][ProbesIssued /\ ProbeStep]_vars

\* of two blobs probed by one push one was found and one was not found and
\* uploaded, and the push has gone on to the delta
C18_Witness ==
  \E h, g \in blobPromises :
    /\ pc = "delta"
    /\ ProbesOf(log, h) = 1 /\ UploadsOf(log, h) = 0
    /\ ProbesOf(log, g) = 1 /\ UploadsOf(log, g) = 1

-----------------------------------------------------------------------------
(* The update of the base branch, and the branch of a pull request *)

\* the commit of the running treePush was made and differs from its parent
CommitChangesFiles == commit # NoCommit /\ CompareFiles(commit) # {}

\* treePush has got the compare of its commit and has gone on or returned
PastCompare ==
  commit # NoCommit /\ pc \notin {"getCompare", "failed"}

\* the PATCH of the base ref is issued only in direct mode, only for a commit
\* that changes files, once and with the sha of the commit; and in direct mode
\* it is issued as soon as the compare lists a file
BaseRefPatched ==
  /\ Issued("patchRef") <= 1
  /\ Issued("patchRef") = 1 =>
       /\ ~options.pull_request
       /\ CommitChangesFiles
       /\ Requests("patchRef")[1].arg = commit.sha
  /\ (PastCompare /\ ~options.pull_request /\ CommitChangesFiles)
       => Issued("patchRef") = 1
  /\ (pc = "done" /\ Issued("patchRef") = 1) => baseHead = commit.sha

\* the branch is created only in pull-request mode, only for a commit that
\* changes files, once, named after the sha of the commit it points at; and in
\* pull-request mode it is created as soon as the compare lists a file
BranchCreated ==
  /\ Issued("postRef") <= 1
  /\ Issued("postRef") = 1 =>
       /\ options.pull_request
       /\ CommitChangesFiles
       /\ Requests("postRef")[1].arg = commit.sha
  /\ (PastCompare /\ options.pull_request /\ CommitChangesFiles)
       => Issued("postRef") = 1
  /\ (pc = "done" /\ Issued("postRef") = 1) => commit.sha \in branches

\* C19: the client patches the base branch ref to the new commit if and only
\* if the push is not in pull-request mode and the compare of the new commit
\* with its parent lists a changed file; in pull-request mode it never issues
\* an update of the base ref and creates a branch, named from the base name and
\* the commit hash, that points at the new commit.
C19_BaseRefOnlyInDirectMode ==
  /\ BaseRefPatched
  /\ BranchCreated
  /\ options.pull_request => (Issued("patchRef") = 0 /\ baseHead = 1)

\* a push in pull-request mode has returned: its branch is there, and the base
\* branch is where it was
C19_Witness ==
  /\ options.pull_request
  /\ pc = "done"
  /\ CommitChangesFiles
  /\ Issued("postRef") = 1
  /\ commit.sha \in branches
  /\ baseHead = 1

-----------------------------------------------------------------------------
(* CommitBuilder: the statistics of the rows *)

\* the commit of the running treePush has been created
CommitCreated == commit # NoCommit

\* the digests of the rows of the delta that carry content
InlineDigests ==
  {gitHubBlobPredictSha(ContentRows(tree)[i].content) :
     i \in 1..Len(ContentRows(tree))}

\* C20: after the commit is created every row of the delta is counted in
\* exactly one of Text_Content_Uploaded (rows with content), Files_Deleted
\* (rows with sha null) and Files_Referenced (rows with a sha), so that the
\* three add up to Tree_Operations, and the digest of every row with content is
\* a known sha.
C20_EveryRowCounted ==
  CommitCreated =>
    /\ lastRunStats.Text_Content_Uploaded = Len(ContentRows(tree))
    /\ lastRunStats.Files_Deleted = Len(DeleteRows(tree))
    /\ lastRunStats.Files_Referenced = Len(ShaRows(tree))
    /\ lastRunStats.Text_Content_Uploaded + lastRunStats.Files_Deleted
         + lastRunStats.Files_Referenced = lastRunStats.Tree_Operations
    /\ InlineDigests \subseteq knownBlobShas

-----------------------------------------------------------------------------
(* RunStats: the counters of a push *)

\* the counters that the rows of the commit feed are still zero
NoRowCounted ==
  /\ lastRunStats.Text_Content_Uploaded = 0
  /\ lastRunStats.Files_Deleted = 0
  /\ lastRunStats.Files_Referenced = 0

\* the counters other than Blobs_Uploaded count what the running push did
OtherCountersOfThisPush ==
  /\ lastRunStats.Tree_Operations = Len(tree)
  /\ lastRunStats.Target_Tree_Size = Len(referenceTree)
  /\ ~CommitCreated => NoRowCounted

\* C21: lastRunStats is reset when a push starts and every counter in it counts
\* operations of that push only, in every sequence of pushes on one instance,
\* a push that follows one that failed during the blob sync with uploads still
\* in flight included.
C21_CountersOfThisPush ==
  pushCount > 0 =>
    /\ lastRunStats.Blobs_Uploaded <= Len(UploadsIssued)
    /\ OtherCountersOfThisPush

-----------------------------------------------------------------------------
(* A push that fails: nothing is taken back *)

\* treePush throws in this step
ThrowStep == pc # "failed" /\ pc' = "failed"

\* the push has failed after its branch and its pull request were created and
\* before the pull request was merged
FailedWithOpenPull ==
  pc = "failed" /\ Issued("postPull") = 1 /\ pullRequest = "open"

\* the delete of the branch is asked for once at most, after the merge request
\* of the same push and only when that has merged the pull request; a push that
\* failed with its pull request open has its branch and has not asked to
\* delete it
C22_DeleteOnlyAfterMerge ==
  /\ Issued("deleteRef") <= 1
  /\ Issued("deleteRef") = 1 =>
       /\ Issued("putMerge") = 1
       /\ pullRequest = "merged"
  /\ FailedWithOpenPull =>
       /\ commit.sha \in branches
       /\ Issued("deleteRef") = 0
       /\ Issued("putMerge") <= 1

\* the requests of this step are blob probes and blob uploads at most: those
\* of the blob loop that throws and of blob tasks still running
OnlyBlobRequests ==
  /\ Len(log') >= Len(log)
  /\ \A i \in (Len(log) + 1)..Len(log') : log'[i].op \in {"headBlob", "postBlob"}

\* the step that throws changes nothing in the remote and issues no request
\* but those of the blob loop; after it the push issues nothing but what its
\* blob tasks still do; no step removes a blob, a tree or a commit
C22_NothingTakenBack ==
  /\ ThrowStep => (OnlyBlobRequests /\ remoteVars' = remoteVars)
  /\ (pc = "failed" /\ pc' = "failed") => OnlyBlobRequests
  /\ blobs \subseteq blobs'
  /\ Len(repoTrees) <= Len(repoTrees')
  /\ Len(repoCommits) <= Len(repoCommits')

\* C22: when a push fails at any step no cleanup or rollback request is
\* issued: the branch created for the pull request is not deleted, the pull
\* request is not closed, uploaded blobs are not removed; the delete of the
\* branch is asked for only after a successful merge request of the same push.
C22_NoRollback ==
  []C22_DeleteOnlyAfterMerge /\ [][C22_NothingTakenBack]_vars

\* a push has failed on a failed check run after it opened its pull request:
\* the branch and the pull request are still there
C22_Witness ==
  /\ FailedWithOpenPull
  /\ err = "checkFailed"
  /\ commit.sha \in branches
  /\ Issued("deleteRef") = 0

-----------------------------------------------------------------------------
(* The delta moves the snapshot to the staged state *)

\* the paths of the snapshot, as _readTree lists them under options.path
SnapshotPaths == {referenceTree[i].path : i \in 1..Len(referenceTree)}

\* the paths with a file staged
StagedPaths == {k \in Keys : fileMap[k].kind = "file"}

\* the tree of the base branch when the push read it: no one else writes
TreeBefore ==
  IF CommitCreated THEN TreeOf([kind |-> "commit", n |-> commit.parents[1]])
  ELSE HeadTree

\* a direct push has returned
DirectPushReturned == pc = "done" /\ ~options.pull_request

\* tree t is tree before moved to the staged state
MovedToStaged(before, t) ==
  /\ \A k \in StagedPaths : t[options.path \o k] = fileMap[k].sha
  /\ \A k \in (SnapshotPaths \ StagedPaths) \ IgnoredPaths :
       t[options.path \o k] = IF options.deleteOtherFiles THEN Absent
                              ELSE before[options.path \o k]
  /\ \A k \in IgnoredPaths : t[options.path \o k] = before[options.path \o k]
  /\ \A p \in FullPaths :
       ~IsPrefix(options.path, p) => t[p] = before[p]
  /\ \A p \in FullPaths :
       (\A k \in StagedPaths \cup SnapshotPaths : p # options.path \o k)
         => t[p] = before[p]

\* C23: with no other writer, applying the rows of a successful direct push
\* to the remote snapshot moves it to the staged state: every staged path
\* holds its staged digest, every snapshot path neither staged nor ignored is
\* removed when deleteOtherFiles is enabled and unchanged when it is
\* disabled, ignored paths and paths outside options.path are unchanged.
C23_PushMovesToStagedState ==
  DirectPushReturned => MovedToStaged(TreeBefore, HeadTree)

\* a push into a sub-folder with deleteOtherFiles has returned after it added
\* or updated a file and removed another, with a file outside the folder
C23_Witness ==
  /\ DirectPushReturned
  /\ options.path = SubPath
  /\ options.deleteOtherFiles
  /\ BaseRefPatched
  /\ \E k \in StagedPaths : TreeBefore[options.path \o k] # fileMap[k].sha
  /\ \E k \in SnapshotPaths \ StagedPaths : HeadTree[options.path \o k] = Absent
  /\ HeadTree[<<"a">>] = "h2"

-----------------------------------------------------------------------------
(* The order of the stages of treePush *)

\* the stage treePush is in at position p
StageOf(p) ==
  CASE p \in {"getContents", "getTree"} -> "RemoteTreeReader"
    [] p \in {"syncBlobs", "awaitBlobs"} -> "BlobSyncer"
    [] p = "delta" -> "DeltaComputer"
    [] p \in {"split", "getRef", "postTree", "postCommit"} -> "CommitBuilder"
    [] p = "getCompare" -> "ChangeComparator"
    [] p \in {"idle", "done", "failed"} -> "none"
    [] OTHER -> "MergeOrchestrator"

\* the stage that issues a request
StageOfRequest(op) ==
  IF op \in {"headBlob", "postBlob"} THEN "BlobSyncer" ELSE StageOf(op)

\* the order in which treePush calls the stages
StageOrder ==
  <<"RemoteTreeReader", "BlobSyncer", "DeltaComputer", "CommitBuilder",
    "ChangeComparator", "MergeOrchestrator">>

\* the order with the delta computed before the blobs are synced
DeltaFirstOrder ==
  <<"RemoteTreeReader", "DeltaComputer", "BlobSyncer", "CommitBuilder",
    "ChangeComparator", "MergeOrchestrator">>

Position(order, stage) == CHOOSE i \in 1..Len(order) : order[i] = stage

\* a step of treePush stays in its stage or enters the next one of the order;
\* a push starts with the first
StepInOrder(order) ==
  /\ (StageOf(pc) # "none" /\ StageOf(pc') # "none") =>
       \/ StageOf(pc') = StageOf(pc)
       \/ Position(order, StageOf(pc')) = Position(order, StageOf(pc)) + 1
  /\ (StageOf(pc) = "none" /\ StageOf(pc') # "none") => StageOf(pc') = order[1]

\* the requests of the running push are in the log in the order of the stages
RequestsInOrder(order) ==
  \A i, j \in 1..Len(log) :
    (i < j /\ log[i].push = pushCount /\ log[j].push = pushCount) =>
      Position(order, StageOfRequest(log[i].op))
        <= Position(order, StageOfRequest(log[j].op))

\* a stage runs with what the stages before it give: every probe and upload
\* of the push has resolved once treePush is past the blob sync
OutputAvailable(order) ==
  Position(order, StageOf(pc)) > Position(order, "BlobSyncer") =>
    \A h \in blobPromises : taskState[h] = "done"

\* C24 as stated: the stages run one after another in the order
\* RemoteTreeReader, DeltaComputer, BlobSyncer, CommitBuilder,
\* ChangeComparator, MergeOrchestrator, none before the output of the one
\* before it is there, the delta computed before BlobSyncer starts
C24_DeltaBeforeBlobSync ==
  /\ [](StageOf(pc) # "none" =>
          (RequestsInOrder(DeltaFirstOrder) /\ OutputAvailable(DeltaFirstOrder)))
  /\ [][StepInOrder(DeltaFirstOrder)]_vars

\* C24: within one push the stages run strictly one after another, in the
\* order RemoteTreeReader, BlobSyncer, DeltaComputer, CommitBuilder,
\* ChangeComparator, MergeOrchestrator: no stage starts before the output of
\* the one before it is there, and the delta is computed after every probe
\* and upload of the push has resolved.
C24_StagesInOrder ==
  /\ [](StageOf(pc) # "none" =>
          (RequestsInOrder(StageOrder) /\ OutputAvailable(StageOrder)))
  /\ [][StepInOrder(StageOrder)]_vars

\* the pull request is being created for a commit whose blob the push has
\* probed and uploaded: every stage has run
C24_Witness ==
  /\ pc = "postPull"
  /\ blobPromises # {}
  /\ UploadsIssued # <<>>
  /\ tree # <<>>
  /\ CommitCreated

-----------------------------------------------------------------------------
(* The rows of the delta *)

\* _deltaTree has returned and its rows are as it returned them
DeltaComputed ==
  \/ pc = "split" /\ Len(treeParts) = 1
  \/ ZeroDeltaReturned

\* the sha the snapshot holds at key k
SnapshotSha(k) == ExistingFile(referenceTree, k).sha

\* the rows of the delta that add or update, and those that delete
AddRows == {i \in 1..Len(tree) : tree[i].sha # Null}
DeletionRows == {i \in 1..Len(tree) : tree[i].sha = Null}

\* the position of key k in the insertion order of the file map
OrderOf(k) == CHOOSE i \in 1..Len(fileOrder) : fileOrder[i] = k

\* the staged key whose row is at position i of the delta
KeyOfRow(i) == CHOOSE k \in StagedPaths : tree[i].path = options.path \o k

\* one add/update row for a staged path the snapshot lacks or holds with
\* another sha, none for one it holds with the same sha, none for other paths
OneRowWhereDifferent ==
  /\ \A k \in StagedPaths :
       Cardinality({i \in AddRows : tree[i].path = options.path \o k})
         = IF k \notin SnapshotPaths \/ SnapshotSha(k) # fileMap[k].sha
           THEN 1 ELSE 0
  /\ \A i \in AddRows : \E k \in StagedPaths : tree[i].path = options.path \o k

\* add/update rows in insertion order, deletion rows after them
RowsInStageOrder ==
  /\ \A i, j \in AddRows : i < j => OrderOf(KeyOfRow(i)) < OrderOf(KeyOfRow(j))
  /\ \A i \in AddRows : \A j \in DeletionRows : i < j

\* C25: the delta is minimal per path: every staged path with a non-null entry
\* gets exactly one add/update row if the snapshot lacks the path or holds
\* another digest, and none if the snapshot holds it with the same digest;
\* add/update rows come in stage insertion order, all deletion rows after them.
C25_DeltaMinimalInOrder ==
  DeltaComputed => (OneRowWhereDifferent /\ RowsInStageOrder)

\* b was staged before a, both differ from the snapshot, and a file of the
\* snapshot is deleted: the rows are b, a, then the deletion
C25_Witness ==
  /\ DeltaComputed
  /\ fileOrder = << <<"b">>, <<"a">> >>
  /\ Len(tree) = 3
  /\ tree[1].path = options.path \o <<"b">>
  /\ tree[2].path = options.path \o <<"a">>
  /\ tree[2].sha # Null
  /\ tree[3].sha = Null
  /\ <<"a">> \in SnapshotPaths

-----------------------------------------------------------------------------
(* The deletion rows of the delta *)

\* the paths the deletion rows of the delta name
DeletedPaths == {tree[i].path : i \in DeletionRows}

\* the snapshot paths that are not keys of the file map, as the rows name them
OtherFiles == {options.path \o p : p \in {q \in SnapshotPaths : ~MapHas(q)}}

\* one deletion row for each of the other files with deleteOtherFiles, none
\* without it
DeletionRowsAsOptionSays ==
  IF options.deleteOtherFiles
  THEN DeletedPaths = OtherFiles
       /\ Cardinality(DeletionRows) = Cardinality(OtherFiles)
  ELSE DeletionRows = {}

\* C26: deletion rows (sha null) are emitted exactly for the snapshot paths
\* that are not keys of the stage map, neither added nor ignored, and only
\* when deleteOtherFiles is enabled; with deleteOtherFiles disabled, the
\* default, no push ever emits a deletion row.
C26_DeletionRows ==
  /\ DeltaComputed => DeletionRowsAsOptionSays
  /\ ~options.deleteOtherFiles =>
       \A i \in 1..Len(SubmittedRows) : SubmittedRows[i].sha # Null

\* with deleteOtherFiles the delta deletes a file of the snapshot that is not
\* staged and keeps another one that is staged
C26_Witness ==
  /\ DeltaComputed
  /\ options.deleteOtherFiles
  /\ DeletionRows # {}
  /\ \E k \in StagedPaths \cap SnapshotPaths : options.path \o k \notin DeletedPaths

-----------------------------------------------------------------------------
(* The wait loop and the merge *)

\* every check run of the list is completed
AllCompleted(checks) ==
  \A i \in 1..Len(checks.check_runs) : checks.check_runs[i].status = "completed"

\* the polled data clears the wait: the state is known, and it is neither
\* blocked nor unstable or no check run is still going
WaitCleared(pr, checks) ==
  /\ pr.mergeable_state # "unknown"
  /\ \/ pr.mergeable_state \notin {"blocked", "unstable"}
     \/ AllCompleted(checks)

\* the step that takes the answer of the last poll of a round
RoundEnds == pc \in {"getPull0", "getCheckRuns"} /\ pc' # pc

MergeIssued == Issued("putMerge") = 1

\* one merge at most, and with it the data polled last clears the wait
C27_MergeOnlyWhenCleared ==
  /\ Issued("putMerge") <= 1
  /\ MergeIssued =>
       /\ options.automatic_merge
       /\ WaitCleared(prStatus, checkStatus)
       /\ Issued("getPull0") = 1
       /\ Issued("getPull") = waitAttemps

\* a round that does not throw ends in the merge when the data it polled
\* clears the wait and in another round when it does not; the merge is issued
\* by no other step
C27_RoundDecides ==
  /\ (RoundEnds /\ pc' # "failed") =>
       IF WaitCleared(prStatus', checkStatus')
       THEN pc' = "putMerge" /\ Issued("putMerge")' = 1
       ELSE pc' = "sleep" /\ Issued("putMerge")' = 0
  /\ pc' = "putMerge" => (pc = "putMerge" \/ RoundEnds)

\* C27: in auto-merge mode the merge request is issued at most once per push,
\* and only when the most recently polled data clears the wait condition
\* (mergeable_state is not unknown, and it is neither blocked nor unstable or
\* every polled check run is completed); for the answers unknown, blocked with
\* checks running, blocked with checks complete, the loop polls until the last
\* of them and then issues exactly one merge.
C27_MergeOnceWhenCleared ==
  []C27_MergeOnlyWhenCleared /\ [][C27_RoundDecides]_vars

\* the merge goes out after two rounds of waiting: the pull request is
\* blocked, as it was in the round before (the last poll of it was answered
\* not modified), and the check runs, one still going then, are all completed
C27_Witness ==
  /\ pc = "putMerge"
  /\ MergeIssued
  /\ waitAttemps = 2
  /\ prStatus.mergeable_state = "blocked"
  /\ prStatus.status = 304
  /\ checkStatus.status = 200
  /\ Len(checkStatus.check_runs) > 0
  /\ AllCompleted(checkStatus)

-----------------------------------------------------------------------------
(* The pull request flow, request by request *)

PollOps == {"getCheckRuns0", "getPull0", "getPull", "getCheckRuns"}

\* the place of a request in the pull request flow; 0 for the requests before
LifecycleRank(op) ==
  CASE op = "postRef" -> 1
    [] op = "postPull" -> 2
    [] op = "patchIssue" -> 3
    [] op = "postReviewers" -> 4
    [] op \in PollOps -> 5
    [] op = "putMerge" -> 6
    [] op = "headRef" -> 7
    [] op = "deleteRef" -> 8
    [] OTHER -> 0

\* the requests of the flow other than the polls, which the loop repeats
OnceOps ==
  {"postRef", "postPull", "patchIssue", "postReviewers", "putMerge", "headRef",
   "deleteRef"}

\* the request issued last
LastOp(l) == IF l = <<>> THEN "none" ELSE l[Len(l)].op

\* the options ask for the request
Wanted(op) ==
  CASE op \in {"postRef", "postPull"} -> options.pull_request
    [] op = "patchIssue" -> options.pull_request /\ options.issue_options
    [] op = "postReviewers" -> options.pull_request /\ options.review_options
    [] OTHER -> options.pull_request /\ options.automatic_merge

\* the request that, with these options, comes just before op in the flow
Predecessor(op) ==
  CASE op = "postRef" -> "getCompare"
    [] op = "postPull" -> "postRef"
    [] op = "patchIssue" -> "postPull"
    [] op = "postReviewers" ->
         IF options.issue_options THEN "patchIssue" ELSE "postPull"
    [] op = "getCheckRuns0" ->
         IF options.review_options THEN "postReviewers"
         ELSE IF options.issue_options THEN "patchIssue" ELSE "postPull"
    [] op = "getPull0" -> "getCheckRuns0"
    [] op = "getPull" -> IF waitAttemps = 0 THEN "getPull0" ELSE "getCheckRuns"
    [] op = "getCheckRuns" -> "getPull"
    [] op = "putMerge" -> IF waitAttemps' = 0 THEN "getPull0" ELSE "getCheckRuns"
    [] op = "headRef" -> "putMerge"
    [] op = "deleteRef" -> "headRef"

\* a request of the flow is issued
IssuesLifecycleRequest ==
  Len(log') = Len(log) + 1 /\ LifecycleRank(LastOp(log')) >= 1

\* the request issued is asked for by the options and follows, in the log,
\* the request that comes before it in the flow; it is issued on the answer
\* of that request, or at the end of a sleep after it, and on no throw; a
\* request other than a poll is further in the flow than every one before it
LifecycleStep ==
  IssuesLifecycleRequest =>
    LET op == LastOp(log') IN
    /\ Wanted(op)
    /\ LastOp(log) = Predecessor(op)
    /\ pc \in {Predecessor(op), "sleepDelay", "sleep"}
    /\ pc' = op
    /\ err' = "none"
    /\ LifecycleRank(op) >= LifecycleRank(LastOp(log))
    /\ op \in OnceOps => LifecycleRank(op) > LifecycleRank(LastOp(log))
    /\ LifecycleRank(op) >= 2 => (commit.sha \in branches' \/ pullRequest' = "merged")
    /\ LifecycleRank(op) >= 3 => pullRequest' # "none"
    /\ op = "headRef" => pullRequest' = "merged"
    /\ op = "deleteRef" => (pullRequest = "merged" /\ commit.sha \in branches)

\* the polls go out once before the loop and once more in each round of it;
\* the delay is slept only when asked for, before the first poll
PollsPerRound ==
  LET checks0 == Issued("getCheckRuns0")
      pull0 == Issued("getPull0")
      pull == Issued("getPull")
      checks == Issued("getCheckRuns")
  IN
  /\ checks0 <= 1 /\ pull0 <= checks0
  /\ pull <= MaxWaitAttemps + 1
  /\ pull > 0 => pull0 = 1
  /\ checks <= pull /\ pull <= checks + 1
  /\ pc = "sleepDelay" =>
       (options.automatic_merge /\ options.automatic_merge_delay /\ checks0 = 0)

\* each poll, of the pull request and of the check runs, goes out once at most
PollsOnce ==
  /\ Issued("getPull0") + Issued("getPull") <= 1
  /\ Issued("getCheckRuns0") + Issued("getCheckRuns") <= 1

\* C28 as stated: the order of the flow, with every request of it, the polls
\* included, issued at most once per push
C28_EveryRequestOnce ==
  [](PollsPerRound /\ PollsOnce) /\ [][LifecycleStep]_vars

\* C28: in pull-request mode the requests of one push follow the order create
\* branch, create pull request, patch the issue (only with issue options),
\* request reviewers (only with review options), the delay and the polls
\* (only with automatic merge), merge, the check that the branch exists,
\* delete branch; each of them but the polls, which the wait loop repeats, is
\* issued at most once per push, and none before the one before it succeeded.
C28_PullRequestLifecycle ==
  []PollsPerRound /\ [][LifecycleStep]_vars

\* a push with issue options, review options, automatic merge and its delay
\* has returned after it deleted its branch: every request of the flow is in
\* the log
C28_Witness ==
  /\ pc = "done"
  /\ options.automatic_merge_delay
  /\ \A op \in OnceOps : Issued(op) = 1
  /\ Issued("getPull") > 0

-----------------------------------------------------------------------------
(* The polls and their etag *)

\* a poll of the pull request, or of the check runs, inside the loop is
\* answered
PullPollAnswered == pc = "getPull" /\ pc' = "getCheckRuns"
ChecksPollAnswered == pc = "getCheckRuns" /\ checkStatus'.status # 0 /\ err' # "request"

\* the polls before the loop carry no If-None-Match; a poll inside the loop
\* carries the etag held with the data of its kind; the data held came with
\* the etag held
C29_TokenOfHeldData ==
  /\ pc \in {"getCheckRuns0", "getPull0"} => ifNoneMatch = NoHeader
  /\ pc = "getPull" => ifNoneMatch = IfNoneMatch(prStatus.etag)
  /\ pc = "getCheckRuns" => ifNoneMatch = IfNoneMatch(checkStatus.etag)
  /\ prStatus.status # 0 =>
       (prStatus.etag = prStatus.mergeable_state /\ prStatus.etag # Null)
  /\ checkStatus.status # 0 => checkStatus.etag = checkStatus.check_runs
  /\ pc \in {"sleep", "putMerge"} =>
       (prStatus.status \in {200, 304} /\ checkStatus.status \in {200, 304})

\* a poll answered 304 leaves the data and the etag as the last full response
\* gave them; a full response replaces data and etag together
C29_AnswerKeepsOrReplaces ==
  /\ PullPollAnswered =>
       IF prStatus'.status = 304
       THEN /\ prStatus'.mergeable_state = prStatus.mergeable_state
            /\ prStatus'.etag = prStatus.etag
       ELSE /\ prStatus'.status = 200
            /\ prStatus'.etag = prStatus'.mergeable_state
            /\ prStatus'.etag # prStatus.etag
  /\ ChecksPollAnswered =>
       IF checkStatus'.status = 304
       THEN /\ checkStatus'.check_runs = checkStatus.check_runs
            /\ checkStatus'.etag = checkStatus.etag
       ELSE /\ checkStatus'.status = 200
            /\ checkStatus'.etag = checkStatus'.check_runs
            /\ checkStatus'.etag # checkStatus.etag
  /\ (pc = "getCheckRuns" /\ pc' \in {"sleep", "putMerge"}) =>
       (pc' = "sleep") = WaitCondition(prStatus', checkStatus')
  /\ (pc = "getCheckRuns" /\ err' = "checkFailed") => FailedCheck(checkStatus')

\* C29: polls after the first carry the validation token of the last full
\* response; a poll answered not modified leaves the pull-request state and
\* the check-run list used for the wait and failure decisions as the most
\* recent full response gave them and keeps the token for the next poll; a
\* full response replaces the previous state as a whole.
C29_ConditionalPolls ==
  []C29_TokenOfHeldData /\ [][C29_AnswerKeepsOrReplaces]_vars

\* the pull request was blocked, its poll was answered not modified, and the
\* next poll of it is out with the same etag
C29_Witness ==
  /\ pc = "getPull"
  /\ prStatus.status = 304
  /\ prStatus.mergeable_state = "blocked"
  /\ ifNoneMatch = IfNoneMatch("blocked")
  /\ waitAttemps >= 2

-----------------------------------------------------------------------------
(* CommitBuilder: the chain of trees *)

\* the body of the i-th create-tree request of the push
TreeRequest(i) == Requests("postTree")[i].arg

\* the tree the remote makes of a create-tree request
TreeMadeOf(body) ==
  ApplyRows([t |-> TreeOf(body.base_tree), blobs |-> blobs, ok |-> TRUE],
            body.tree).t

\* the first create-tree request has the head of the base branch, as the ref
\* gave it, for its base; each later one has the tree made of the one before
TreeChain ==
  /\ Issued("postTree") > 0 =>
       /\ TreeRequest(1).base_tree = baseSha
       /\ baseSha.kind = "commit"
       /\ pc \in {"postTree", "postCommit", "getCompare"} => baseSha.n = baseHead
  /\ \A i \in 2..Issued("postTree") :
       /\ TreeRequest(i).base_tree.kind = "tree"
       /\ TreeOf(TreeRequest(i).base_tree) = TreeMadeOf(TreeRequest(i - 1))

\* the commit request names the tree made of the last create-tree request, and
\* one parent, the head the ref gave; the commit made has that tree and parent
CommitOnChain ==
  Issued("postCommit") = 1 =>
    LET c == Requests("postCommit")[1].arg IN
    /\ Issued("postTree") = Len(treeParts)
    /\ c.tree.kind = "tree"
    /\ TreeOf(c.tree) = TreeMadeOf(TreeRequest(Issued("postTree")))
    /\ c.parents = <<baseSha>>
    /\ CommitCreated =>
         /\ commit.parents = <<baseSha.n>>
         /\ repoCommits[commit.sha].parent = baseSha.n
         /\ repoCommits[commit.sha].tree = c.tree.n

\* C30: the create-tree calls of one push form a chain: the first uses the
\* branch head captured at the start of commit building as its base, each
\* later call uses the tree id returned by the call before it, the commit
\* references the tree id returned by the last call, and the commit has
\* exactly one parent, the same captured branch head.
C30_TreeChain ==
  (Issued("postTree") <= Len(treeParts)) /\ TreeChain /\ CommitOnChain

\* a commit was made of a delta submitted in three create-tree requests
C30_Witness ==
  /\ CommitCreated
  /\ Issued("postTree") >= 3
  /\ TreeOf(TreeRequest(2).base_tree) # TreeOf(baseSha)
  /\ TreeOf(TreeRequest(3).base_tree) # TreeOf(TreeRequest(2).base_tree)

-----------------------------------------------------------------------------
(* FileStage: the entries of the file map *)

\* the keys that hold a file
FileKeys == {k \in FullPaths : fileMap[k].kind = "file"}

\* the bytes an entry stands for
BytesOf(e) == IF e.content # Null THEN e.content ELSE e.buffer

\* exactly one of content and buffer is set, and sha is the digest of it
EntryWellFormed(e) ==
  /\ (e.content # Null) # (e.buffer # Null)
  /\ e.sha = gitHubBlobPredictSha(BytesOf(e))

\* every key of the map is in its order once, and nothing else is
OneEntryPerPath ==
  /\ \A i, j \in 1..Len(fileOrder) : fileOrder[i] = fileOrder[j] => i = j
  /\ {fileOrder[i] : i \in 1..Len(fileOrder)} = {k \in FullPaths : MapHas(k)}

C31_EntriesWellFormed ==
  /\ \A k \in FileKeys : EntryWellFormed(fileMap[k])
  /\ OneEntryPerPath

\* the caller stages in this step
StageStep == stageOps' = stageOps + 1

\* a step of a push leaves the bytes and the sha of every entry as they were
\* staged, whatever it does to content and buffer; a staging step changes the
\* entry of one path and no other
C31_EntryStep ==
  /\ ~StageStep =>
       \A k \in FullPaths :
         /\ fileMap'[k].kind = fileMap[k].kind
         /\ fileMap'[k].sha = fileMap[k].sha
         /\ fileMap[k].kind = "file" => BytesOf(fileMap'[k]) = BytesOf(fileMap[k])
  /\ StageStep =>
       /\ Cardinality({k \in FullPaths : fileMap'[k] # fileMap[k]}) <= 1
       /\ \A k \in FullPaths :
            (fileMap'[k] # fileMap[k] /\ fileMap'[k].kind = "file") =>
              (fileMap'[k].content # Null \/ fileMap'[k].buffer = "c1")

\* C31: for every non-null staged entry, after every add and after every
\* push, succeeded or failed, exactly one of content and buffer is non-null
\* and the sha is the digest of those bytes as computed when the entry was
\* staged; promotion from content to buffer never changes the sha, and
\* adding a path again replaces the entry it had.
C31_StagedEntries ==
  []C31_EntriesWellFormed /\ [][C31_EntryStep]_vars

\* a push has failed after it promoted the large string at a path to a buffer
C31_Witness ==
  /\ pc = "failed"
  /\ \E k \in FileKeys :
       /\ fileMap[k].buffer = "c2"
       /\ fileMap[k].content = Null
       /\ fileMap[k].sha = "h2"

-----------------------------------------------------------------------------
(* BlobSyncer: the order in which probes and uploads complete *)

\* treePush is past _syncBlobs, or has returned
PastBlobSync ==
  /\ pushCount > 0
  /\ pc \notin {"idle", "getContents", "getTree", "syncBlobs", "awaitBlobs", "failed"}

\* a probe or an upload completes in this step
TaskCompletes == taskState' # taskState /\ pc' = pc

\* once the blob sync of a push is over every probe and upload it started has
\* resolved, Blobs_Uploaded is the number of create-blob requests it issued,
\* and the known set has the shas of the snapshot and of every probe
SyncOutcome ==
  PastBlobSync =>
    /\ \A h \in blobPromises : taskState[h] = "done"
    /\ lastRunStats.Blobs_Uploaded = Len(UploadsIssued)
    /\ blobPromises \subseteq knownBlobShas
    /\ \A i \in 1..Len(referenceTree) : referenceTree[i].sha \in knownBlobShas

\* C32: when all probes and uploads of one push succeed, the result does not
\* depend on the order in which they complete: for every order Blobs_Uploaded
\* equals the number of create-blob requests issued, the known-digest set ends
\* up the same (no completion changes it), and the BlobSyncer stage finishes
\* only after every probe and upload has resolved.
C32_CompletionOrderIrrelevant ==
  []SyncOutcome /\ [][TaskCompletes => knownBlobShas' = knownBlobShas]_vars

-----------------------------------------------------------------------------
(* CommitBuilder: termination of the split loop *)

\* the while loop of _createCommitFromTree is synchronous code: a turn that
\* can be taken is taken. A turn that splits adds a part; the model follows
\* the growth of treeParts up to MaxParts parts, which only a loop that keeps
\* splitting a part of one row reaches: there the code goes on turning, each
\* turn at the same part with one more empty array behind it.
SpecSplitLive == SpecSplit /\ WF_vars(splitStep) /\ WF_vars(splitDone)

\* the loop is at a part made of one row that is over the ceiling by itself
AtOversizedRow ==
  /\ pc = "split"
  /\ evalIndex <= Len(treeParts)
  /\ Len(treeParts[evalIndex]) = 1
  /\ TooLong(treeParts[evalIndex])

\* C33: the split loop terminates for every non-empty delta row list, also for
\* one that holds a single row whose own serialized size is over the payload
\* ceiling, at any position: a treePush that has entered the loop leaves it.
C33_SplitLoopTerminates == (pc = "split") ~> (pc # "split")

-----------------------------------------------------------------------------
(* CommitBuilder: the parts submitted and the rows of the delta *)

\* every create-tree request of the delta has been submitted
AllPartsSubmitted == Issued("postCommit") = 1

\* the places (part, index) of the submitted parts that hold the row
PlacesOf(row) ==
  {<<k, j>> \in (1..Len(SubmittedParts)) \X (1..MaxRows) :
     j <= Len(SubmittedParts[k]) /\ SubmittedParts[k][j] = row}

\* every row of the delta is in exactly one submitted part, and the parts hold
\* nothing else
PartsPartitionDelta ==
  /\ \A i \in 1..Len(tree) : Cardinality(PlacesOf(tree[i])) = 1
  /\ Len(SubmittedRows) = Len(tree)

\* C34: the chunks submitted as create-tree calls are a partition of the delta:
\* every row of the delta is in exactly one submitted chunk (none lost, none
\* duplicated), and no submitted chunk is empty.
C34_ChunksPartitionDelta ==
  /\ AllPartsSubmitted => PartsPartitionDelta
  /\ \A k \in 1..Len(SubmittedParts) : SubmittedParts[k] # <<>>

-----------------------------------------------------------------------------
(* BlobSyncer and DeltaPlanner: the blobs that reference rows name *)

\* the rows of a create-tree request that refer to a blob by its sha
ReferenceRows(request) ==
  SelectSeq(request.arg.tree, LAMBDA row : row.sha \notin {Absent, Null})

\* C35: whenever a push emits a tree row that references a digest by sha, a
\* blob with that digest exists in the remote store; also in a push that
\* follows a push which failed during a blob probe or upload after the digest
\* had been added to the known set and the entry promoted to a buffer.
C35_ReferencedBlobExists ==
  \A i \in 1..Len(log) :
    log[i].op = "postTree" =>
      \A j \in 1..Len(ReferenceRows(log[i])) :
        ReferenceRows(log[i])[j].sha \in blobs

-----------------------------------------------------------------------------
(* Another writer of the base branch while a push runs: files are staged, one
   direct treePush is made, and between the answer to the tree request of
   _readTree and the answer to the ref request of _createCommitFromTree someone
   else commits to the base branch *)

\* the commits the repository takes from the other writer and the push
MaxCommits == 3

\* _readTree has returned and the head of the branch has not been read yet
BetweenSnapshotAndHead ==
  pc \in {"syncBlobs", "awaitBlobs", "delta", "split", "getRef"}

\* another writer commits to the base branch: the file at p becomes the blob h,
\* or is removed
otherWriter(p, h) ==
  /\ BetweenSnapshotAndHead
  /\ Len(repoCommits) + 1 < MaxCommits
  /\ HeadTree[p] # h
  /\ LET t == [HeadTree EXCEPT ![p] = h] IN
     /\ repoTrees' = StoreTree(t)
     /\ repoCommits' = Append(repoCommits, [tree |-> TreeId(t), parent |-> baseHead])
     /\ baseHead' = Len(repoCommits) + 1
  /\ UNCHANGED <<options, stageVars, knownBlobShas, lastRunStats, pc, err, treeUrl,
                 referenceTree, blobPromises, taskState, treeVars, mergeVars,
                 blobs, branches, pullRequest, pushCount, log>>

OtherWriter ==
  \E k \in Keys : \E h \in blobs \cup {Absent} : otherWriter(options.path \o k, h)

NextWriter ==
  \/ StageFirst
  \/ treePushOnce
  \/ readContentsResponse
  \/ readTreeResponse
  \/ OtherWriter
  \/ syncBlobs
  \/ BlobTask
  \/ awaitBlobs
  \/ deltaTree
  \/ splitStep
  \/ splitDone
  \/ getRefResponse
  \/ postTreeResponse
  \/ postCommitResponse
  \/ getCompareResponse
  \/ patchRefResponse

SpecWriter == Init /\ [][NextWriter]_vars

\* a direct push has returned with the base branch moved to its commit
PushedCommit ==
  /\ DirectPushReturned
  /\ CommitCreated
  /\ baseHead = commit.sha

\* C36: the snapshot the delta is computed against and the branch head used as
\* the parent of the commit describe the same remote state: in every
\* interleaving with another writer that advances the base branch between the
\* snapshot read and the head capture, a direct push that returns successfully
\* leaves every staged, non-ignored path on the base branch at its staged
\* digest.
C36_StagedPathsAtStagedDigest ==
  PushedCommit =>
    \A k \in StagedPaths : HeadTree[options.path \o k] = fileMap[k].sha

====
